---- MODULE Spec2Model ----
(***************************************************************************)
(* The asynchronous job core of the video comparison backend:              *)
(*   backend/app/jobs.py         JobQueue (file-per-job store, registry)   *)
(*   backend/app/api/jobs.py     the job endpoints (get/cancel/delete/...) *)
(*   backend/app/api/compare.py  the two background pipelines and their    *)
(*                               progress reporters                       *)
(*                                                                         *)
(* Everything runs on one asyncio event loop.  A coroutine only yields at  *)
(* an await that really suspends.  The store lock is never held across an  *)
(* await, so acquiring it never suspends, and the Gemini calls are plain   *)
(* synchronous calls; hence every JobQueue method and every endpoint is    *)
(* one atomic step, and a pipeline only yields at                          *)
(*   - its start (asyncio.create_task),                                    *)
(*   - await asyncio.gather of the model tasks,                            *)
(*   - await progress_task,                                                *)
(* and a reporter only at await asyncio.sleep(2).  Each action below is    *)
(* one such step, from one suspension point to the next.                   *)
(***************************************************************************)
EXTENDS Integers, Sequences, FiniteSets, TLC

\* ------------------------------------------------------------------ bounds
MaxJobs == 1
MaxElapsed == 2
MaxVideos == 2
MaxPrompts == 2
MaxModels == 2
MaxBatchModels == 1
\* the jobs of PairSpec, which runs two small jobs side by side
PairJobs == 2
\* the videos, prompts and models of the batch job of BatchSpec
BatchVideos == 1
BatchPrompts == 2
BatchFan == 2

\* --------------------------------------------------------------- constants
\* a reporter reads the time once per round and sleeps 2 seconds; the model
\* keeps its elapsed time in units of twenty sleeps
SleepSeconds == 2
ElapsedUnit == 20 * SleepSeconds
EstimatedDuration == 60

Max(a, b) == IF a >= b THEN a ELSE b

JobIds == 1..Max(MaxJobs, PairJobs)

PENDING == "pending"
RUNNING == "running"
COMPLETED == "completed"
FAILED == "failed"
CANCELLED == "cancelled"
JobStatus == {PENDING, RUNNING, COMPLETED, FAILED, CANCELLED}
Terminal == {COMPLETED, FAILED, CANCELLED}

SINGLE_COMPARE == "single_compare"
BATCH_COMPARE == "batch_compare"

\* Python's None for the optional fields and for omitted arguments
NoTime == 0
NoProgress == -1
NoStr == "None"
NoResult == [none |-> TRUE]
NoJob == [absent |-> TRUE]
\* a file whose content json.load or Job(**data) rejects: empty, cut short,
\* or not a Job
Garbled == [garbled |-> TRUE]
NoResponse == 0
NoCutoff == -1
Unread == [op |-> "none", id |-> 0, code |-> NoResponse]

\* cleanup_old_jobs lists at most this many jobs
ListLimit == 1000
\* a directory without files, the clock of the file system at its start
EmptyDir == [files |-> <<>>, mtime |-> <<>>, now |-> 0]

Min(a, b) == IF a <= b THEN a ELSE b

\* --------------------------------------------------------------- variables
VARIABLES
    store,          \* job_id -> the Job in <storage_dir>/<job_id>.json, or NoJob
    next_id,        \* the next job id create_job allocates (uuid4: never reused)
    running_tasks,  \* JobQueue._running_tasks, the job ids that have an entry
    task,           \* job_id -> the pipeline coroutine: position and locals
    models,         \* job_id -> the run_model_on_video tasks of the current gather
    rep,            \* job_id -> the progress reporter task of the current stage
    trail,          \* job_id -> when the last step that wrote the job called
                    \*   update_job more than once: the persisted (status,
                    \*   progress) before the step and after each of its writes
    ever_running,   \* job_id -> a RUNNING status was persisted at some point
    cancelled_pending, \* job_id -> the job was cancelled while PENDING
    create_resp,    \* the status code a create endpoint answered in the last
                    \*   step, NoResponse when the step served no create request
    by_mtime,       \* the ids of the job files, most recently modified first
    cleanup_arg,    \* in CleanupSpec: the argument of the cleanup served in the
                    \*   last step, NoCutoff when the step served none
    read_resp,      \* in GarbledSpec: the request served in the last step (get,
                    \*   list or cleanup), the job id of a get and the status
                    \*   code answered; else Unread
    calls,          \* in UpdateSpec: call -> a get_job or update_job call on one
                    \*   job: its position, arguments and local variable `job`
    locked,         \* in UpdateSpec: JobQueue._lock is held
    cur,            \* in UpdateSpec: the call whose coroutine the event loop is
                    \*   running, 0 between two steps of the loop
    applied,        \* in UpdateSpec: the arguments of the update_job calls that
                    \*   returned, in the order of their return
    dir             \* in ListSpec: the storage directory as the file system
                    \*   shows it: the files in the order glob yields them,
                    \*   their st_mtime, and the file system's clock

vars == <<store, next_id, running_tasks, task, models, rep, trail,
          ever_running, cancelled_pending, create_resp, by_mtime, cleanup_arg,
          read_resp, calls, locked, cur, applied, dir>>

\* ----------------------------------------------------------------- records
\* datetime.utcnow().isoformat() assigned to a timestamp field: utcnow has
\* microsecond resolution, so every assignment stores a value the field did
\* not hold before; the model keeps the ordinal of the assignment (0 is None)
Stamp(old) == old + 1

\* a Job created as already started
NewJobStarted(job_type, request_data) ==
    [job_type |-> job_type, status |-> RUNNING, created_at |-> Stamp(NoTime),
     started_at |-> Stamp(NoTime), completed_at |-> NoTime, progress |-> 0,
     progress_message |-> NoStr, request_data |-> request_data,
     result |-> NoResult, error |-> NoStr]

\* Job(job_id, job_type, status=PENDING, created_at, request_data)
NewJob(job_type, request_data) ==
    [job_type |-> job_type, status |-> PENDING, created_at |-> Stamp(NoTime),
     started_at |-> NoTime, completed_at |-> NoTime, progress |-> 0,
     progress_message |-> NoStr, request_data |-> request_data,
     result |-> NoResult, error |-> NoStr]

\* the keyword arguments of one update_job call
Upd(status, progress, message, result, error) ==
    [status |-> status, progress |-> progress, progress_message |-> message,
     result |-> result, error |-> error]

NoRequest == [models |-> 0, video_ids |-> <<>>, prompts |-> 0]
IdleTask == [pc |-> "none", job_type |-> NoStr, req |-> NoRequest,
             cancel_req |-> FALSE, stop |-> FALSE, combo |-> 0,
             base |-> 0, comparisons |-> <<>>]
IdleRep == [pc |-> "none", elapsed |-> 0]

\* ---------------------------------------------------- JobQueue.update_job
\* SetStatus with CANCELLED missing from the list of terminal statuses
SetStatusNoCancelStamp(job, status) ==
    [job EXCEPT !.status = status,
                !.started_at = IF status = RUNNING /\ @ = NoTime
                               THEN Stamp(@) ELSE @,
                !.completed_at = IF status \in {COMPLETED, FAILED}
                                 THEN Stamp(@) ELSE @]

\* SetStatus with started_at written on the first status of any kind
SetStatusAlwaysStarted(job, status) ==
    [job EXCEPT !.status = status,
                !.started_at = IF @ = NoTime THEN Stamp(@) ELSE @,
                !.completed_at = IF status # RUNNING /\ status \in Terminal
                                 THEN Stamp(@) ELSE @]

\* SetStatus with completed_at written for every status argument
SetStatusAlwaysCompleted(job, status) ==
    [job EXCEPT !.status = status,
                !.started_at = IF status = RUNNING /\ @ = NoTime
                               THEN Stamp(@) ELSE @,
                !.completed_at = Stamp(@)]

\* the branch on the status argument: started_at is written on the first
\* RUNNING, completed_at on COMPLETED, FAILED and CANCELLED (unguarded)
SetStatus(job, status) ==
    [job EXCEPT !.status = status,
                !.started_at = IF status = RUNNING /\ @ = NoTime
                               THEN Stamp(@) ELSE @,
                !.completed_at = IF status # RUNNING /\ status \in Terminal
                                 THEN Stamp(@) ELSE @]

\* update_job with tests of the arguments' truth: progress 0 and empty
\* strings count as not passed
update_jobSkipsFalsy(job, u) ==
    LET j1 == IF u.status # NoStr THEN SetStatus(job, u.status) ELSE job
        j2 == IF u.progress \notin {NoProgress, 0}
              THEN [j1 EXCEPT !.progress = u.progress] ELSE j1
        j3 == IF u.progress_message \notin {NoStr, ""}
              THEN [j2 EXCEPT !.progress_message = u.progress_message] ELSE j2
        j4 == IF u.result # NoResult THEN [j3 EXCEPT !.result = u.result] ELSE j3
    IN  IF u.error \notin {NoStr, ""} THEN [j4 EXCEPT !.error = u.error] ELSE j4

\* the modified Job that update_job dumps to the job's file: a status that
\* is passed (every JobStatus is a non-empty string), and each of progress,
\* progress_message, result and error that is not None
update_job(job, u) ==
    LET j1 == IF u.status # NoStr THEN SetStatus(job, u.status) ELSE job
        j2 == IF u.progress # NoProgress
              THEN [j1 EXCEPT !.progress = u.progress] ELSE j1
        j3 == IF u.progress_message # NoStr
              THEN [j2 EXCEPT !.progress_message = u.progress_message] ELSE j2
        j4 == IF u.result # NoResult THEN [j3 EXCEPT !.result = u.result] ELSE j3
    IN  IF u.error # NoStr THEN [j4 EXCEPT !.error = u.error] ELSE j4

\* the Jobs written by a run of update_job calls made without suspending
RECURSIVE ApplyAll(_, _)
ApplyAll(job, ups) ==
    IF ups = <<>> THEN <<>>
    ELSE LET j1 == update_job(job, Head(ups))
         IN  <<j1>> \o ApplyAll(j1, Tail(ups))

Mark(job) == <<job.status, job.progress>>

\* the listing of the storage directory without the file of job j
Without(j) == SelectSeq(by_mtime, LAMBDA x : x # j)

\* update_job called with each of ups in turn: a no-op when the job's file is
\* gone, otherwise read, modify and rewrite the file
Persist(j, ups) ==
    IF store[j] = NoJob \/ ups = <<>>
    THEN UNCHANGED <<store, trail, ever_running, by_mtime>>
    ELSE LET written == ApplyAll(store[j], ups)
         IN  /\ store' = [store EXCEPT ![j] = written[Len(written)]]
             /\ by_mtime' = <<j>> \o Without(j)
             /\ trail' = [trail EXCEPT ![j] =
                    IF Len(written) = 1 THEN <<>>
                    ELSE <<Mark(store[j])>> \o
                         [i \in 1..Len(written) |-> Mark(written[i])]]
             /\ ever_running' = [ever_running EXCEPT ![j] =
                    @ \/ \E i \in 1..Len(written) : written[i].status = RUNNING]

\* ------------------------------------------------- the pipelines' updates
\* the first update without its status argument
SingleStartUpdNoStatus == Upd(NoStr, 10, "Starting comparison...", NoResult, NoStr)
SingleStartUpd == Upd(RUNNING, 10, "Starting comparison...", NoResult, NoStr)
SingleModelsUpd == Upd(NoStr, 20, "Running models in parallel...", NoResult, NoStr)
SingleEvalUpd ==
    Upd(NoStr, 80, "Models completed. Evaluating results...", NoResult, NoStr)
SingleCompletedUpd(result) == Upd(COMPLETED, 100, "Comparison completed", result, NoStr)
\* the handler's update without its status argument
FailedUpdNoStatus(error) == Upd(NoStr, NoProgress, NoStr, NoResult, error)
\* the handler's update without its error argument
FailedUpdNoError(error) == Upd(FAILED, NoProgress, NoStr, NoResult, NoStr)
FailedUpd(error) == Upd(FAILED, NoProgress, NoStr, NoResult, error)

\* the estimate without its offset of 20
EstimatedProgressFromZero(elapsed) ==
    Min((elapsed * 55) \div EstimatedDuration, 75)
\* the estimate without its clamp at 75
EstimatedProgressUnclamped(elapsed) == 20 + (elapsed * 55) \div EstimatedDuration
\* update_progress_periodically: min(20 + int((elapsed / 60) * 55), 75)
EstimatedProgress(elapsed) ==
    Min(20 + (elapsed * 55) \div EstimatedDuration, 75)
\* the reporter's update with a status argument added
SingleReporterUpdRunning(elapsed) ==
    Upd(RUNNING, EstimatedProgress(elapsed), "Processing models...", NoResult, NoStr)
SingleReporterUpd(elapsed) ==
    Upd(NoStr, EstimatedProgress(elapsed), "Processing models...", NoResult, NoStr)

BatchStartUpd == Upd(RUNNING, 5, "Starting batch comparison...", NoResult, NoStr)
\* int(10 + ((current_combo - 1) / total_combinations) * 85)
BaseProgress(combo, total) == 10 + ((combo - 1) * 85) \div total
BaseUpd(combo, total) ==
    Upd(NoStr, BaseProgress(combo, total), "Processing combination...", NoResult, NoStr)
\* int(85 / total_combinations)
ComboProgressRange(total) == 85 \div total
\* min(int((elapsed / 60) * combo_progress_range), combo_progress_range - 5)
ProgressInCombo(elapsed, total) ==
    Min((elapsed * ComboProgressRange(total)) \div EstimatedDuration,
        ComboProgressRange(total) - 5)
ComboReporterUpd(base, elapsed, total) ==
    Upd(NoStr, base + ProgressInCombo(elapsed, total), "Combo: Processing...",
        NoResult, NoStr)
\* base_progress + int(0.8 * (85 / total_combinations))
EvalProgress(base, total) == base + (4 * 85) \div (5 * total)
ComboEvalUpd(base, total) ==
    Upd(NoStr, EvalProgress(base, total), "Combo: Evaluating...", NoResult, NoStr)
BatchCompletedUpd(result) ==
    Upd(COMPLETED, 100, "Batch comparison completed", result, NoStr)

\* ------------------------------------------------ models and the evaluation
\* what a call of run_model_on_video meets: a response, an exception of the
\* Gemini call, or the video file gone since the pipeline validated it
ModelOutcomes == {"ok", "err", "gone"}
\* every way a call of run_model_on_video can go: beside the above, the
\* Gemini call returns a response whose text is "" or is None, or raises an
\* exception whose str() is ""; the pipelines are run with ModelOutcomes
CallOutcomes == ModelOutcomes \cup {"empty", "none", "mute"}
\* str(e) of the exception the call caught; a text of None makes the
\* construction of the ModelResult raise inside the try block
ModelError(outcome) ==
    IF outcome = "gone" THEN "[Errno 2] No such file or directory"
    ELSE IF outcome = "none" THEN "1 validation error for ModelResult"
    ELSE IF outcome = "mute" THEN ""
    ELSE "exception text"
\* the result of a failed call without the exception text
ModelResultNoError(name, outcome) ==
    IF outcome = "ok" THEN [model_name |-> name, response |-> "text", error |-> NoStr]
    ELSE [model_name |-> name, response |-> "", error |-> NoStr]
\* run_model_on_video for the name-th selected model: the response, or the
\* exception text as the error
ModelResult(name, outcome) ==
    IF outcome = "ok" THEN [model_name |-> name, response |-> "text", error |-> NoStr]
    ELSE IF outcome = "empty"
    THEN [model_name |-> name, response |-> "", error |-> NoStr]
    ELSE [model_name |-> name, response |-> "", error |-> ModelError(outcome)]

\* what the judge call gives evaluate_results: a verdict of the requested
\* shape, an exception, text that makes json.loads or the construction of the
\* scores raise, or JSON of another shape on which nothing raises, such as
\* {"evaluations": {}}
JudgeReplies == {"verdict", "raises", "unparsable", "misshapen"}

\* evaluate_results: scores and a summary; ([], "Evaluation failed: ...")
\* when the judge call or the parse raises; ([], "") when the loop over
\* data["evaluations"] finds nothing and there is no "overall_summary"
EvalOutcomes == {"scored", "failed", "empty"}
EvalOutcome(reply) ==
    IF reply = "verdict" THEN "scored"
    ELSE IF reply \in {"raises", "unparsable"} THEN "failed" ELSE "empty"
Evaluations(ev) == IF ev = "scored" THEN <<"score">> ELSE <<>>
Summary(ev) ==
    IF ev = "scored" THEN "summary"
    ELSE IF ev = "failed" THEN "Evaluation failed: exception text" ELSE ""

\* one CompareResponse dict: evaluation and overall_summary are None if empty
\* (<<>> and NoStr)
Comparison(video_id, prompt, outcomes, ev) ==
    [video_id |-> video_id, prompt |-> prompt,
     results |-> [i \in 1..Len(outcomes) |-> ModelResult(i, outcomes[i])],
     evaluation |-> IF Evaluations(ev) # <<>> THEN Evaluations(ev) ELSE <<>>,
     overall_summary |-> IF Summary(ev) # "" THEN Summary(ev) ELSE NoStr]

BatchResult(comparisons, nvideos, nprompts, total) ==
    [comparisons |-> comparisons, total_videos |-> nvideos,
     total_prompts |-> nprompts, total_combinations |-> total]

\* the request of a job: video_ids, number of prompts, number of models
Total(req) == Len(req.video_ids) * req.prompts
\* the combinations visited prompt by prompt
ComboVideoPromptMajor(req, combo) ==
    req.video_ids[((combo - 1) % Len(req.video_ids)) + 1]
\* the nested loops visit the combinations video by video
ComboVideo(req, combo) == req.video_ids[((combo - 1) \div req.prompts) + 1]
ComboPrompt(req, combo) == ((combo - 1) % req.prompts) + 1

\* what the pipeline finds before any model runs: all files there and the
\* key configured, a video file gone, or no GEMINI_API_KEY
StartOutcomes == {"ok", "no_video", "no_key"}
\* the text of the exception raised then, or NoStr
StartError(found) ==
    IF found = "no_video" THEN "Video not found"
    ELSE IF found = "no_key" THEN "500: GEMINI_API_KEY is not configured"
    ELSE NoStr

\* -------------------------------------------------------------------- Init
Init ==
    /\ store = [j \in JobIds |-> NoJob]
    /\ next_id = 1
    /\ running_tasks = {}
    /\ task = [j \in JobIds |-> IdleTask]
    /\ models = [j \in JobIds |-> <<>>]
    /\ rep = [j \in JobIds |-> IdleRep]
    /\ trail = [j \in JobIds |-> <<>>]
    /\ ever_running = [j \in JobIds |-> FALSE]
    /\ cancelled_pending = [j \in JobIds |-> FALSE]
    /\ create_resp = NoResponse
    /\ by_mtime = <<>>
    /\ cleanup_arg = NoCutoff
    /\ read_resp = Unread
    /\ calls = <<>> /\ locked = FALSE /\ cur = 0 /\ applied = <<>>
    /\ dir = EmptyDir

\* ------------------------------------------- create_job + start_background_task
\* the validation of the two create endpoints: 404 when get_video_path finds
\* no file for a video id, then 400 when a selected model is not in MODELS
CreateCode(videos_known, models_known) ==
    IF ~videos_known THEN 404 ELSE IF ~models_known THEN 400 ELSE 200

\* create_job reached whatever the validation found
AcceptedAlways(code) == TRUE
\* a raised HTTPException ends the endpoint before create_job
Accepted(code) == code = 200

\* the two create endpoints: validate, then create_job and
\* start_background_task
CreateAsync(job_type, req, code) ==
    /\ create_resp' = code
    /\ IF ~Accepted(code)
       THEN UNCHANGED <<store, next_id, running_tasks, task, by_mtime>>
       ELSE /\ store' = [store EXCEPT ![next_id] = NewJob(job_type, req)]
            /\ by_mtime' = <<next_id>> \o by_mtime
            /\ running_tasks' = running_tasks \cup {next_id}
            /\ task' = [task EXCEPT ![next_id] =
                   [IdleTask EXCEPT !.pc = "start", !.job_type = job_type,
                                    !.req = req]]
            /\ next_id' = next_id + 1
    /\ UNCHANGED <<models, rep, trail, ever_running, cancelled_pending>>

compare_video_understanding_async(n, video_known, models_known) ==
    CreateAsync(SINGLE_COMPARE,
                [models |-> n, video_ids |-> <<1>>, prompts |-> 1],
                CreateCode(video_known, models_known))

batch_compare_video_understanding_async(nv, np, n, videos_known, models_known) ==
    CreateAsync(BATCH_COMPARE,
                [models |-> n, video_ids |-> [i \in 1..nv |-> i], prompts |-> np],
                CreateCode(videos_known, models_known))

\* ------------------------------------------------------------ the pipelines
StartStage(j, combo, base) ==
    /\ task' = [task EXCEPT ![j].pc = "gather", ![j].stop = FALSE,
                            ![j].combo = combo, ![j].base = base]
    /\ rep' = [rep EXCEPT ![j] = [pc |-> "ready", elapsed |-> 0]]
    /\ models' = [models EXCEPT ![j] = [i \in 1..task[j].req.models |-> "pending"]]

\* the coroutine returned: its frame, the results it held and its joined
\* reporter are gone
Finish(j) ==
    /\ task' = [task EXCEPT ![j] = [IdleTask EXCEPT !.pc = "done",
                                       !.job_type = task[j].job_type]]
    /\ rep' = [rep EXCEPT ![j] = IdleRep]
    /\ models' = [models EXCEPT ![j] = <<>>]

\* _run_comparison_job from its first line to await asyncio.gather
SingleStart(j, found) ==
    IF StartError(found) # NoStr
    THEN Persist(j, <<SingleStartUpd, FailedUpd(StartError(found))>>) /\ Finish(j)
    ELSE Persist(j, <<SingleStartUpd, SingleModelsUpd>>) /\ StartStage(j, 1, 0)

\* _run_batch_comparison_job from its first line to the first gather
BatchStart(j, found) ==
    LET req == task[j].req
        total == Total(req)
    IN  IF StartError(found) # NoStr
        THEN Persist(j, <<BatchStartUpd, FailedUpd(StartError(found))>>) /\ Finish(j)
        ELSE IF total = 0
        THEN /\ Persist(j, <<BatchStartUpd,
                             BatchCompletedUpd(BatchResult(<<>>, Len(req.video_ids),
                                                           req.prompts, total))>>)
             /\ Finish(j)
        ELSE /\ Persist(j, <<BatchStartUpd, BaseUpd(1, total)>>)
             /\ StartStage(j, 1, BaseProgress(1, total))

\* a queue that starts a task when the tasks of all earlier jobs have ended
RunnableInTurn(j) ==
    /\ task[j].pc = "start"
    /\ \A i \in 1..(j - 1) : task[i].pc \in {"none", "done"}
\* asyncio.create_task scheduled the coroutine: the loop runs its first step
\* whatever the other tasks are doing
Runnable(j) == task[j].pc = "start"

\* a task that goes on after a cancel request
ResumesAlways(j) == TRUE
\* Task.cancel() makes the task's next step raise CancelledError in the
\* coroutine instead of resuming it
Resumes(j) == ~task[j].cancel_req

\* the first step of the background task, which finds `found`
TaskStartWith(j, found) ==
    /\ Runnable(j)
    /\ Resumes(j)
    \* the validation loop finds no video missing when there is none
    /\ found = "no_video" => task[j].req.video_ids # <<>>
    /\ IF task[j].job_type = SINGLE_COMPARE
       THEN SingleStart(j, found) ELSE BatchStart(j, found)
    /\ UNCHANGED <<next_id, running_tasks, cancelled_pending>>

TaskStart(j) == \E found \in StartOutcomes : TaskStartWith(j, found)

\* one run_model_on_video task, run in list order
ModelStep(j) ==
    /\ \E i \in 1..Len(models[j]) :
          /\ models[j][i] = "pending"
          /\ \A k \in 1..(i - 1) : models[j][k] # "pending"
          /\ \E outcome \in ModelOutcomes :
                models' = [models EXCEPT ![j][i] = outcome]
    /\ UNCHANGED <<store, next_id, running_tasks, task, rep, trail,
                   ever_running, cancelled_pending, by_mtime>>

\* a wait that returns with the first call that has finished
GatheredFirst(calls_of_combo) ==
    calls_of_combo # <<>> => calls_of_combo[1] \in ModelOutcomes
\* await asyncio.gather over the tasks: returns when every call has returned
Gathered(calls_of_combo) ==
    \A i \in 1..Len(calls_of_combo) : calls_of_combo[i] \in ModelOutcomes

\* gather returned: stop_progress_updates = True; await progress_task
GatherDone(j) ==
    /\ task[j].pc = "gather"
    /\ Resumes(j)
    /\ Gathered(models[j])
    /\ task' = [task EXCEPT ![j].stop = TRUE, ![j].pc = "join"]
    /\ UNCHANGED <<store, next_id, running_tasks, models, rep, trail,
                   ever_running, cancelled_pending, by_mtime>>

\* the elapsed times, in ElapsedUnit, a round of the reporter can read after
\* it read `last`: update_progress_periodically takes start_time in its first
\* round, update_combo_progress counts from combo_start_time, taken before
\* the reporter was created
ElapsedReadings(job_type, first, last) ==
    IF job_type = SINGLE_COMPARE /\ first THEN {0} ELSE last..MaxElapsed

\* a loop that does not test the flag
StoppedNever(j) == FALSE
\* while not stop_progress_updates
Stopped(j) == task[j].stop

\* one round of the reporter's loop: test the flag, update_job, sleep(2)
ReporterStep(j) ==
    /\ rep[j].pc \in {"ready", "sleeping"}
    /\ IF Stopped(j)
       THEN /\ rep' = [rep EXCEPT ![j].pc = "done"]
            /\ UNCHANGED <<store, trail, ever_running, by_mtime>>
       ELSE \E e \in ElapsedReadings(task[j].job_type, rep[j].pc = "ready",
                                     rep[j].elapsed) :
              /\ rep' = [rep EXCEPT ![j] = [pc |-> "sleeping", elapsed |-> e]]
              /\ IF task[j].job_type = SINGLE_COMPARE
                 THEN Persist(j, <<SingleReporterUpd(e * ElapsedUnit)>>)
                 ELSE Persist(j, <<ComboReporterUpd(task[j].base, e * ElapsedUnit,
                                                    Total(task[j].req))>>)
    /\ UNCHANGED <<next_id, running_tasks, task, models, cancelled_pending>>

\* the pipeline resumed without waiting for its reporter
JoinedAlways(j) == TRUE
\* await progress_task returns when the reporter's coroutine has returned
Joined(j) == rep[j].pc = "done"

\* the reporter is joined: _run_comparison_job to its end
SingleFinish(j, ev) ==
    LET req == task[j].req
        result == Comparison(req.video_ids[1], 1, models[j], ev)
    IN  /\ Persist(j, <<SingleEvalUpd, SingleCompletedUpd(result)>>)
        /\ Finish(j)

\* loops that end with their first combination
MoreCombosNever(combo, total) == FALSE
\* the nested for loops have a combination left to visit
MoreCombos(combo, total) == combo < total

\* the reporter is joined: _run_batch_comparison_job to the next gather, or
\* to its end after the last combination
BatchContinue(j, ev) ==
    LET req == task[j].req
        total == Total(req)
        combo == task[j].combo
        comparisons == Append(task[j].comparisons,
            Comparison(ComboVideo(req, combo), ComboPrompt(req, combo), models[j], ev))
    IN  IF MoreCombos(combo, total)
        THEN /\ Persist(j, <<ComboEvalUpd(task[j].base, total), BaseUpd(combo + 1, total)>>)
             /\ task' = [task EXCEPT ![j].pc = "gather", ![j].stop = FALSE,
                            ![j].combo = combo + 1,
                            ![j].base = BaseProgress(combo + 1, total),
                            ![j].comparisons = comparisons]
             /\ rep' = [rep EXCEPT ![j] = [pc |-> "ready", elapsed |-> 0]]
             /\ models' = [models EXCEPT ![j] = [i \in 1..req.models |-> "pending"]]
        ELSE /\ Persist(j, <<ComboEvalUpd(task[j].base, total),
                             BatchCompletedUpd(BatchResult(comparisons,
                                 Len(req.video_ids), req.prompts, total))>>)
             /\ Finish(j)

\* the pipeline from the joined reporter on, the judge answering `reply`
JoinWith(j, reply) ==
    /\ task[j].pc = "join"
    /\ Resumes(j)
    /\ Joined(j)
    /\ IF task[j].job_type = SINGLE_COMPARE
       THEN SingleFinish(j, EvalOutcome(reply))
       ELSE BatchContinue(j, EvalOutcome(reply))
    /\ UNCHANGED <<next_id, running_tasks, cancelled_pending>>

JoinDone(j) == \E reply \in JudgeReplies : JoinWith(j, reply)

\* the step of a cancelled task: CancelledError is raised at its await and is
\* not an Exception, so no handler runs and the task ends; a reporter it did
\* not stop keeps the variables of the frame it closes over
TaskCancelled(j) ==
    /\ task[j].pc \in {"start", "gather", "join"}
    /\ task[j].cancel_req
    /\ task' = [task EXCEPT ![j].pc = "done", ![j].comparisons = <<>>]
    /\ models' = [models EXCEPT ![j] = <<>>]
    /\ UNCHANGED <<store, next_id, running_tasks, rep, trail,
                   ever_running, cancelled_pending, by_mtime>>

\* a callback that removes nothing
popNothing(registry, j) == registry
\* self._running_tasks.pop(job_id, None)
pop(registry, j) == registry \ {j}

\* the done callback of start_background_task, which the event loop calls
\* once the task has finished
cleanup(j) ==
    /\ task[j].pc = "done"
    /\ j \in running_tasks
    /\ running_tasks' = pop(running_tasks, j)
    /\ UNCHANGED <<store, next_id, task, models, rep, trail, ever_running,
                   cancelled_pending, by_mtime>>

\* ------------------------------------------------------ JobQueue.cancel_job
CancelUpd == Upd(CANCELLED, NoProgress, NoStr, NoResult, NoStr)

\* cancel_job without the call of Task.cancel()
CancelsNoTask(j) == FALSE
\* if job_id in self._running_tasks
CancelsTask(j) == j \in running_tasks

\* Task.cancel() on the pipeline: the request reaches an unfinished task at
\* its await; the gather cancels the model tasks that have not run, and an
\* awaited reporter is cancelled in its sleep
TaskCancel(j) ==
    IF CancelsTask(j) /\ task[j].pc \in {"start", "gather", "join"}
    THEN /\ task' = [task EXCEPT ![j].cancel_req = TRUE]
         /\ models' = [models EXCEPT ![j] =
                IF task[j].pc = "gather"
                THEN [i \in 1..Len(@) |-> IF @[i] = "pending" THEN "cancelled" ELSE @[i]]
                ELSE @]
         /\ rep' = [rep EXCEPT ![j].pc =
                IF task[j].pc = "join" /\ @ \in {"ready", "sleeping"}
                THEN "cancelled" ELSE @]
    ELSE UNCHANGED <<task, models, rep>>

cancel_job(j) ==
    /\ TaskCancel(j)
    /\ Persist(j, <<CancelUpd>>)

\* ------------------------------------------------------------ job endpoints
\* the endpoint without its check of the status
CancellableAlways(status) == TRUE
\* if job.status not in [PENDING, RUNNING]: 400
Cancellable(status) == status \in {PENDING, RUNNING}

\* the status code of POST /jobs/{job_id}/cancel
CancelCode(j) ==
    IF store[j] = NoJob THEN 404
    ELSE IF ~Cancellable(store[j].status) THEN 400 ELSE 200

\* POST /jobs/{job_id}/cancel
CancelReq(j) ==
    /\ IF CancelCode(j) # 200
       THEN UNCHANGED <<store, trail, ever_running, task, models, rep,
                        cancelled_pending, by_mtime>>
       ELSE /\ cancel_job(j)
            /\ cancelled_pending' = [cancelled_pending EXCEPT ![j] =
                                        @ \/ store[j].status = PENDING]
    /\ UNCHANGED <<next_id, running_tasks>>

\* the status code of GET /jobs/{job_id}
GetCode(j) == IF store[j] = NoJob THEN 404 ELSE 200

\* the status code of GET /jobs/{job_id}/result
ResultCode(j) ==
    IF store[j] = NoJob THEN 404
    ELSE IF store[j].status # COMPLETED THEN 400
    ELSE IF store[j].result = NoResult THEN 404 ELSE 200

\* DELETE /jobs/{job_id}: 404 when there is no file, else delete_job; what
\* was recorded about the writes to the file goes with it
DeleteReq(j) ==
    /\ store[j] # NoJob
    /\ store' = [store EXCEPT ![j] = NoJob]
    /\ by_mtime' = Without(j)
    /\ trail' = [trail EXCEPT ![j] = <<>>]
    /\ ever_running' = [ever_running EXCEPT ![j] = FALSE]
    /\ cancelled_pending' = [cancelled_pending EXCEPT ![j] = FALSE]
    /\ UNCHANGED <<next_id, running_tasks, task, models, rep>>

\* ------------------------------------------------- JobQueue.cleanup_old_jobs
\* JobQueue.list_jobs returns the first `limit` files in order of st_mtime,
\* newest first: the stored jobs it leaves out
NotListed(limit) ==
    {by_mtime[i] : i \in (Min(limit, Len(by_mtime)) + 1)..Len(by_mtime)}

\* list_jobs loads each of the first `limit` files with json.load and
\* Job(**data) and has no handler: the exception of one file ends the call
ListRaises(limit) ==
    \E i \in 1..Min(limit, Len(by_mtime)) : store[by_mtime[i]] = Garbled

\* every job counted as created before the cutoff
CreatedBeforeAlways(j, boundary) == TRUE
\* created < cutoff, the cutoff being utcnow() - days: jobs are created in the
\* order of their ids, so the jobs created before a cutoff are those up to
\* some id, the boundary
CreatedBefore(j, boundary) == j <= boundary

\* cleanup_old_jobs: delete_job for each job of list_jobs(limit=1000) that
\* was created before the cutoff; nothing is deleted when list_jobs raises
cleanup_old_jobs(boundary) ==
    IF ListRaises(ListLimit)
    THEN UNCHANGED <<store, by_mtime, trail, ever_running, cancelled_pending>>
    ELSE
    LET skipped == NotListed(ListLimit)
        Gone(j) == CreatedBefore(j, boundary) /\ j \notin skipped
    IN  /\ store' = [j \in DOMAIN store |-> IF Gone(j) THEN NoJob ELSE store[j]]
        /\ by_mtime' = SelectSeq(by_mtime, LAMBDA x : ~Gone(x))
        /\ trail' = [j \in DOMAIN trail |-> IF Gone(j) THEN <<>> ELSE trail[j]]
        /\ ever_running' = [j \in DOMAIN ever_running |->
                               IF Gone(j) THEN FALSE ELSE ever_running[j]]
        /\ cancelled_pending' = [j \in DOMAIN cancelled_pending |->
                               IF Gone(j) THEN FALSE ELSE cancelled_pending[j]]

\* POST /jobs/cleanup
CleanupReq(boundary) ==
    /\ cleanup_old_jobs(boundary)
    /\ UNCHANGED <<next_id, running_tasks, task, models, rep>>

\* --------------------------------------------------------------------- Next
\* a step that records no cleanup
NoCleanup == cleanup_arg' = NoCutoff

\* a step that serves no create request
NoCreate == create_resp' = NoResponse

\* a step whose read of the store is not recorded
NoRead == read_resp' = Unread

\* a step in which no call of get_job or update_job is left unfinished
NoCall == UNCHANGED <<calls, locked, cur, applied, dir>>

\* ------------------------------------------------------- process restart
\* a constructor that starts from an empty directory
StorageDirEmptied(files) == [j \in DOMAIN files |-> NoJob]
\* JobQueue.__init__: self.storage_dir.mkdir(exist_ok=True) keeps a directory
\* that exists and the files in it
StorageDir(files) == files

\* get_job(j) of a JobQueue over the files: a file is kept as the Job that
\* Job(**json.load(f)) builds from what json.dump wrote and flush and fsync
\* completed before the write returned
get_job(files, j) == files[j]

\* the process ends between two writes and is started again: the tasks, the
\* reporters and the registry are gone, JobQueue() is constructed over the
\* same directory; uuid4 repeats no id
Restart ==
    /\ store' = StorageDir(store)
    /\ by_mtime' = SelectSeq(by_mtime, LAMBDA x : StorageDir(store)[x] # NoJob)
    /\ running_tasks' = {}
    /\ task' = [j \in JobIds |-> IdleTask]
    /\ models' = [j \in JobIds |-> <<>>]
    /\ rep' = [j \in JobIds |-> IdleRep]
    /\ UNCHANGED <<next_id, trail, ever_running, cancelled_pending>>

Next ==
    \/ \E n \in 1..MaxModels, vk \in BOOLEAN, mk \in BOOLEAN :
          /\ next_id <= MaxJobs
          /\ compare_video_understanding_async(n, vk, mk)
          /\ NoCleanup /\ NoRead /\ NoCall
    \/ \E nv \in 0..MaxVideos, np \in 0..MaxPrompts, n \in 1..MaxBatchModels,
          vk \in BOOLEAN, mk \in BOOLEAN :
          /\ next_id <= MaxJobs
          /\ batch_compare_video_understanding_async(nv, np, n, vk, mk)
          /\ NoCleanup /\ NoRead /\ NoCall
    \/ \E j \in JobIds : TaskStart(j) /\ NoCreate /\ NoCleanup /\ NoRead /\ NoCall
    \/ \E j \in JobIds : ModelStep(j) /\ NoCreate /\ NoCleanup /\ NoRead /\ NoCall
    \/ \E j \in JobIds : GatherDone(j) /\ NoCreate /\ NoCleanup /\ NoRead /\ NoCall
    \/ \E j \in JobIds : ReporterStep(j) /\ NoCreate /\ NoCleanup /\ NoRead /\ NoCall
    \/ \E j \in JobIds : JoinDone(j) /\ NoCreate /\ NoCleanup /\ NoRead /\ NoCall
    \/ \E j \in JobIds : TaskCancelled(j) /\ NoCreate /\ NoCleanup /\ NoRead /\ NoCall
    \/ \E j \in JobIds : cleanup(j) /\ NoCreate /\ NoCleanup /\ NoRead /\ NoCall
    \/ \E j \in JobIds : CancelReq(j) /\ NoCreate /\ NoCleanup /\ NoRead /\ NoCall
    \/ \E j \in JobIds : DeleteReq(j) /\ NoCreate /\ NoCleanup /\ NoRead /\ NoCall
    \/ \E boundary \in 0..MaxJobs : CleanupReq(boundary) /\ NoCreate /\ NoCleanup /\ NoRead /\ NoCall
    \/ Restart /\ NoCreate /\ NoCleanup /\ NoRead /\ NoCall

Spec == Init /\ [][Next]_vars

\* ------------------------------------------------- a process that stays up
\* the steps of a process that is not restarted, its batches of up to
\* BatchVideos videos and BatchPrompts prompts
RunNext ==
    \/ \E n \in 1..MaxModels, vk \in BOOLEAN, mk \in BOOLEAN :
          /\ next_id <= MaxJobs
          /\ compare_video_understanding_async(n, vk, mk)
          /\ NoCleanup /\ NoRead /\ NoCall
    \/ \E nv \in 0..BatchVideos, np \in 0..BatchPrompts, n \in 1..MaxBatchModels,
          vk \in BOOLEAN, mk \in BOOLEAN :
          /\ next_id <= MaxJobs
          /\ batch_compare_video_understanding_async(nv, np, n, vk, mk)
          /\ NoCleanup /\ NoRead /\ NoCall
    \/ \E j \in JobIds : TaskStart(j) /\ NoCreate /\ NoCleanup /\ NoRead /\ NoCall
    \/ \E j \in JobIds : ModelStep(j) /\ NoCreate /\ NoCleanup /\ NoRead /\ NoCall
    \/ \E j \in JobIds : GatherDone(j) /\ NoCreate /\ NoCleanup /\ NoRead /\ NoCall
    \/ \E j \in JobIds : ReporterStep(j) /\ NoCreate /\ NoCleanup /\ NoRead /\ NoCall
    \/ \E j \in JobIds : JoinDone(j) /\ NoCreate /\ NoCleanup /\ NoRead /\ NoCall
    \/ \E j \in JobIds : TaskCancelled(j) /\ NoCreate /\ NoCleanup /\ NoRead /\ NoCall
    \/ \E j \in JobIds : cleanup(j) /\ NoCreate /\ NoCleanup /\ NoRead /\ NoCall
    \/ \E j \in JobIds : CancelReq(j) /\ NoCreate /\ NoCleanup /\ NoRead /\ NoCall
    \/ \E j \in JobIds : DeleteReq(j) /\ NoCreate /\ NoCleanup /\ NoRead /\ NoCall
    \/ \E boundary \in 0..MaxJobs : CleanupReq(boundary) /\ NoCreate /\ NoCleanup /\ NoRead /\ NoCall

\* the steps of the task of job j and of the model calls it gathers
TaskStepOf(j) ==
    /\ TaskStart(j) \/ ModelStep(j) \/ GatherDone(j) \/ JoinDone(j) \/ TaskCancelled(j)
    /\ NoCreate /\ NoCleanup /\ NoRead /\ NoCall
\* the rounds of the reporter of job j
ReporterStepOf(j) == ReporterStep(j) /\ NoCreate /\ NoCleanup /\ NoRead /\ NoCall

\* the event loop runs every task that is ready to run, and every model call
\* and judge call returns or raises
RunSpec ==
    /\ Init /\ [][RunNext]_vars
    /\ \A j \in JobIds : WF_vars(TaskStepOf(j)) /\ WF_vars(ReporterStepOf(j))

\* ------------------------------------------------------ two jobs side by side
\* PairJobs valid requests, a single comparison or a batch of one video and
\* one prompt, each with one model, and the steps of their tasks and
\* reporters in every order the event loop can run them
PairNext ==
    \/ /\ next_id <= PairJobs
       /\ compare_video_understanding_async(1, TRUE, TRUE)
       /\ NoCleanup /\ NoRead /\ NoCall
    \/ /\ next_id <= PairJobs
       /\ batch_compare_video_understanding_async(1, 1, 1, TRUE, TRUE)
       /\ NoCleanup /\ NoRead /\ NoCall
    \/ \E j \in JobIds : TaskStart(j) /\ NoCreate /\ NoCleanup /\ NoRead /\ NoCall
    \/ \E j \in JobIds : ModelStep(j) /\ NoCreate /\ NoCleanup /\ NoRead /\ NoCall
    \/ \E j \in JobIds : GatherDone(j) /\ NoCreate /\ NoCleanup /\ NoRead /\ NoCall
    \/ \E j \in JobIds : ReporterStep(j) /\ NoCreate /\ NoCleanup /\ NoRead /\ NoCall
    \/ \E j \in JobIds : JoinDone(j) /\ NoCreate /\ NoCleanup /\ NoRead /\ NoCall
    \/ \E j \in JobIds : cleanup(j) /\ NoCreate /\ NoCleanup /\ NoRead /\ NoCall

PairSpec == Init /\ [][PairNext]_vars

\* ------------------------------------------------ one batch of several models
\* one valid batch request of BatchVideos videos, BatchPrompts prompts and
\* BatchFan models, the steps of its task, its model calls and its reporters,
\* and a client that may cancel it
BatchNext ==
    \/ /\ next_id <= MaxJobs
       /\ batch_compare_video_understanding_async(BatchVideos, BatchPrompts, BatchFan,
                                                  TRUE, TRUE)
       /\ NoCleanup /\ NoRead /\ NoCall
    \/ \E j \in JobIds : TaskStart(j) /\ NoCreate /\ NoCleanup /\ NoRead /\ NoCall
    \/ \E j \in JobIds : ModelStep(j) /\ NoCreate /\ NoCleanup /\ NoRead /\ NoCall
    \/ \E j \in JobIds : GatherDone(j) /\ NoCreate /\ NoCleanup /\ NoRead /\ NoCall
    \/ \E j \in JobIds : ReporterStep(j) /\ NoCreate /\ NoCleanup /\ NoRead /\ NoCall
    \/ \E j \in JobIds : JoinDone(j) /\ NoCreate /\ NoCleanup /\ NoRead /\ NoCall
    \/ \E j \in JobIds : TaskCancelled(j) /\ NoCreate /\ NoCleanup /\ NoRead /\ NoCall
    \/ \E j \in JobIds : cleanup(j) /\ NoCreate /\ NoCleanup /\ NoRead /\ NoCall
    \/ \E j \in JobIds : CancelReq(j) /\ NoCreate /\ NoCleanup /\ NoRead /\ NoCall

BatchSpec == Init /\ [][BatchNext]_vars

\* the event loop runs every callback it has scheduled: a done callback
\* that is due is not postponed forever
CallbackStep == \E j \in JobIds : cleanup(j) /\ NoCreate /\ NoCleanup /\ NoRead /\ NoCall
LiveSpec == Spec /\ WF_vars(CallbackStep)

\* ------------------------------------------ cleanup of a large storage directory
\* from fewer files than cleanup_old_jobs lists to one more
MinStored == ListLimit - 48
MaxStored == ListLimit + 1

\* the records earlier runs of the process left in the storage directory, of
\* every status
LeftRequest == [models |-> 1, video_ids |-> <<1>>, prompts |-> 1]
LeftUpdates(j) ==
    IF j % 5 = 0 THEN <<>>
    ELSE IF j % 5 = 1 THEN <<SingleStartUpd, SingleModelsUpd>>
    ELSE IF j % 5 = 2
         THEN <<SingleStartUpd, SingleModelsUpd, SingleEvalUpd,
                SingleCompletedUpd(Comparison(1, 1, <<"ok">>, "scored"))>>
    ELSE IF j % 5 = 3 THEN <<SingleStartUpd, FailedUpd("Video not found")>>
    ELSE <<CancelUpd>>
Leftover(j) ==
    LET written == <<NewJob(SINGLE_COMPARE, LeftRequest)>>
                   \o ApplyAll(NewJob(SINGLE_COMPARE, LeftRequest), LeftUpdates(j))
    IN  written[Len(written)]

\* JobQueue() over a storage directory that holds the files of n jobs, last
\* modified in the order of their creation or in the opposite order
CleanupInit ==
    /\ \E n \in MinStored..MaxStored, latest_first \in BOOLEAN :
          /\ store = [j \in 1..MaxStored |-> IF j <= n THEN Leftover(j) ELSE NoJob]
          /\ by_mtime = [i \in 1..n |-> IF latest_first THEN n + 1 - i ELSE i]
          /\ next_id = n + 1
    /\ running_tasks = {}
    /\ task = [j \in JobIds |-> IdleTask]
    /\ models = [j \in JobIds |-> <<>>]
    /\ rep = [j \in JobIds |-> IdleRep]
    /\ trail = [j \in JobIds |-> <<>>]
    /\ ever_running = [j \in JobIds |-> FALSE]
    /\ cancelled_pending = [j \in JobIds |-> FALSE]
    /\ create_resp = NoResponse
    /\ cleanup_arg = NoCutoff
    /\ read_resp = Unread
    /\ calls = <<>> /\ locked = FALSE /\ cur = 0 /\ applied = <<>>
    /\ dir = EmptyDir

\* the cutoffs tried: before every job, after the first ListLimit jobs, after
\* every job
Boundaries == {0, ListLimit, MaxStored}

CleanupNext ==
    \E boundary \in Boundaries :
       CleanupReq(boundary) /\ NoCreate /\ cleanup_arg' = boundary /\ NoRead /\ NoCall

CleanupSpec == CleanupInit /\ [][CleanupNext]_vars

\* --------------------------------------- a storage directory with garbled files
\* the number of job ids the directory is drawn over
DirSize == 3
\* the limits of the listings requested: the newest file only, the default
ListLimits == {1, 50}

\* the answer of an endpoint whose handler raised an exception that is not an
\* HTTPException
ServerError == 500

\* JobQueue() over a directory in which each id has no file, the file of a
\* job an earlier run left, or a garbled file (such as a rewrite cut short
\* by a crash leaves), modified in the order of the ids or the opposite
GarbledInit ==
    /\ \E kind \in [1..DirSize -> {"none", "job", "garbled"}],
          latest_first \in BOOLEAN :
          LET ids == SelectSeq([i \in 1..DirSize |-> i], LAMBDA x : kind[x] # "none")
          IN  /\ store = [j \in 1..DirSize |->
                            IF kind[j] = "none" THEN NoJob
                            ELSE IF kind[j] = "job" THEN Leftover(j) ELSE Garbled]
              /\ by_mtime = [i \in 1..Len(ids) |->
                                IF latest_first THEN ids[Len(ids) + 1 - i] ELSE ids[i]]
    /\ next_id = DirSize + 1
    /\ running_tasks = {}
    /\ task = [j \in JobIds |-> IdleTask]
    /\ models = [j \in JobIds |-> <<>>]
    /\ rep = [j \in JobIds |-> IdleRep]
    /\ trail = [j \in 1..DirSize |-> <<>>]
    /\ ever_running = [j \in 1..DirSize |-> FALSE]
    /\ cancelled_pending = [j \in 1..DirSize |-> FALSE]
    /\ create_resp = NoResponse
    /\ cleanup_arg = NoCutoff
    /\ read_resp = Unread
    /\ calls = <<>> /\ locked = FALSE /\ cur = 0 /\ applied = <<>>
    /\ dir = EmptyDir

\* GET /jobs/{job_id}: 404 when get_job finds no file, the exception of
\* json.load or Job(**data) when the file is garbled
ReadCode(j) ==
    IF store[j] = NoJob THEN 404
    ELSE IF store[j] = Garbled THEN ServerError ELSE 200

GetReq(j) ==
    /\ read_resp' = [op |-> "get", id |-> j, code |-> ReadCode(j)]
    /\ UNCHANGED <<store, next_id, running_tasks, task, models, rep, trail,
                   ever_running, cancelled_pending, by_mtime>>

\* GET /jobs?limit=
ListCode(limit) == IF ListRaises(limit) THEN ServerError ELSE 200

ListReq(limit) ==
    /\ read_resp' = [op |-> "list", id |-> 0, code |-> ListCode(limit)]
    /\ UNCHANGED <<store, next_id, running_tasks, task, models, rep, trail,
                   ever_running, cancelled_pending, by_mtime>>

GarbledNext ==
    \/ \E j \in 1..DirSize : GetReq(j) /\ NoCreate /\ NoCleanup /\ NoCall
    \/ \E limit \in ListLimits : ListReq(limit) /\ NoCreate /\ NoCleanup /\ NoCall
    \/ \E boundary \in 0..DirSize :
          /\ CleanupReq(boundary) /\ NoCreate /\ cleanup_arg' = boundary
          /\ read_resp' = [op |-> "cleanup", id |-> 0, code |-> ListCode(ListLimit)]
          /\ NoCall

GarbledSpec == GarbledInit /\ [][GarbledNext]_vars

\* ------------------------------------------------ listings by st_mtime
\* the ticks of the file system's clock: writes that fall into one tick
\* leave the same st_mtime
MaxTicks == 2
\* the limits requested, the query parameter being any int
Limits == {-1, 0, 1, 2, 50}

ListInit ==
    /\ store = [j \in 1..DirSize |-> NoJob]
    /\ by_mtime = <<>>
    /\ next_id = 1
    /\ running_tasks = {}
    /\ task = [j \in JobIds |-> IdleTask]
    /\ models = [j \in JobIds |-> <<>>]
    /\ rep = [j \in JobIds |-> IdleRep]
    /\ trail = [j \in JobIds |-> <<>>]
    /\ ever_running = [j \in JobIds |-> FALSE]
    /\ cancelled_pending = [j \in JobIds |-> FALSE]
    /\ create_resp = NoResponse
    /\ cleanup_arg = NoCutoff
    /\ read_resp = Unread
    /\ calls = <<>> /\ locked = FALSE /\ cur = 0 /\ applied = <<>>
    /\ dir = EmptyDir

\* seq with x put after its first `at` elements
InsertAt(seq, at, x) ==
    SubSeq(seq, 1, at) \o <<x>> \o SubSeq(seq, at + 1, Len(seq))

\* sorted(glob, key=st_mtime, reverse=True): the sort is stable, so files
\* of equal st_mtime stay in the order glob yielded them
\* (the files of st_mtime t, then those of the ticks before)
RECURSIVE Sorted(_, _, _)
Sorted(files, mtime, t) ==
    IF t < 0 THEN <<>>
    ELSE SelectSeq(files, LAMBDA x : mtime[x] = t) \o Sorted(files, mtime, t - 1)

\* seq[:limit]
Slice(seq, limit) ==
    IF limit >= 0 THEN SubSeq(seq, 1, Min(limit, Len(seq)))
    ELSE SubSeq(seq, 1, Max(Len(seq) + limit, 0))

\* JobQueue.list_jobs: the ids of the jobs returned, in order
list_jobs(limit) == Slice(Sorted(dir.files, dir.mtime, MaxTicks), limit)

\* create_job or update_job writes the file of job j: a new file appears at
\* any place of the directory's order, and the written file gets the time of
\* the file system's clock, which has gone on by a tick or has not
WriteFile(j, tick, at) ==
    /\ tick \in {dir.now, dir.now + 1} /\ tick <= MaxTicks
    /\ at \in 0..Len(dir.files)
    /\ store[j] = NoJob \/ at = 0
    /\ dir' = [files |-> IF store[j] = NoJob THEN InsertAt(dir.files, at, j)
                         ELSE dir.files,
               mtime |-> [x \in (DOMAIN dir.mtime) \cup {j} |->
                            IF x = j THEN tick ELSE dir.mtime[x]],
               now |-> tick]
    /\ store' = [store EXCEPT ![j] =
                    IF store[j] = NoJob THEN NewJob(SINGLE_COMPARE, LeftRequest)
                    ELSE update_job(store[j], SingleStartUpd)]
    /\ by_mtime' = <<j>> \o Without(j)
    /\ read_resp' = Unread
    /\ UNCHANGED <<next_id, running_tasks, task, models, rep, trail,
                   ever_running, cancelled_pending, calls, locked, cur, applied>>

\* GET /jobs?limit=: the ids returned are kept in read_resp
ListJobsReq(limit) ==
    /\ read_resp' = [op |-> "list", id |-> limit, code |-> 200,
                     jobs |-> list_jobs(limit)]
    /\ UNCHANGED <<store, by_mtime, next_id, running_tasks, task, models, rep,
                   trail, ever_running, cancelled_pending, calls, locked, cur,
                   applied, dir>>

ListNext ==
    \/ \E j \in 1..DirSize, tick \in 0..MaxTicks, at \in 0..DirSize :
          WriteFile(j, tick, at) /\ NoCreate /\ NoCleanup
    \/ \E limit \in Limits : ListJobsReq(limit) /\ NoCreate /\ NoCleanup

ListSpec == ListInit /\ [][ListNext]_vars

\* ------------------------------------------- the calls of run_model_on_video
\* the coroutines a gather is given, one per selected model, for up to
\* MaxModels models
ResultInit ==
    /\ store = [j \in JobIds |-> NoJob]
    /\ by_mtime = <<>>
    /\ next_id = 1
    /\ running_tasks = {}
    /\ task = [j \in JobIds |-> IdleTask]
    /\ models \in [JobIds -> {[i \in 1..n |-> "pending"] : n \in 0..MaxModels}]
    /\ rep = [j \in JobIds |-> IdleRep]
    /\ trail = [j \in JobIds |-> <<>>]
    /\ ever_running = [j \in JobIds |-> FALSE]
    /\ cancelled_pending = [j \in JobIds |-> FALSE]
    /\ create_resp = NoResponse
    /\ cleanup_arg = NoCutoff
    /\ read_resp = Unread
    /\ calls = <<>> /\ locked = FALSE /\ cur = 0 /\ applied = <<>>
    /\ dir = EmptyDir

\* run_model_on_video for the i-th model of gather j, from its first line to
\* its return: the ModelResult it returns is kept in read_resp
RunModel(j, i, outcome) ==
    /\ i \in 1..Len(models[j])
    /\ models[j][i] = "pending"
    /\ models' = [models EXCEPT ![j][i] = outcome]
    /\ read_resp' = [op |-> "model", id |-> i, code |-> NoResponse,
                     result |-> ModelResult(i, outcome)]
    /\ UNCHANGED <<store, by_mtime, next_id, running_tasks, task, rep, trail,
                   ever_running, cancelled_pending>>

ResultNext ==
    \E j \in JobIds, i \in 1..MaxModels, outcome \in CallOutcomes :
       RunModel(j, i, outcome) /\ NoCreate /\ NoCleanup /\ NoCall

ResultSpec == ResultInit /\ [][ResultNext]_vars

\* ------------------------------- get_job and update_job statement by statement
\* the number of calls made on the jobs
MaxCalls == 3
CallIds == 1..MaxCalls

NoUpd == Upd(NoStr, NoProgress, NoStr, NoResult, NoStr)
NewCall == [pc |-> "new", op |-> "none", id |-> 0, u |-> NoUpd, job |-> NoJob,
            waiting |-> FALSE, todo |-> <<>>]
\* the calls: get_job, update_job, and those that start with the lock:
\* delete_job, list_jobs, create_job, and cleanup_old_jobs through list_jobs
CallOps == {"get", "update", "delete", "list", "create", "cleanup"}

\* the updates of a RUNNING job that can meet: the reporter's, cancel_job's,
\* the pipeline's checkpoint and its last write
CallUpdates ==
    {SingleReporterUpd(ElapsedUnit), CancelUpd, SingleEvalUpd,
     SingleCompletedUpd(Comparison(1, 1, <<"ok">>, "scored"))}

\* the record of a job whose models are running
RunningJob ==
    LET written == ApplyAll(NewJob(SINGLE_COMPARE, LeftRequest),
                            <<SingleStartUpd, SingleModelsUpd>>)
    IN  written[Len(written)]

UpdateInit ==
    /\ store = [j \in JobIds |-> RunningJob]
    /\ by_mtime = [i \in JobIds |-> i]
    /\ next_id = Max(MaxJobs, PairJobs) + 1
    /\ running_tasks = {}
    /\ task = [j \in JobIds |-> IdleTask]
    /\ models = [j \in JobIds |-> <<>>]
    /\ rep = [j \in JobIds |-> IdleRep]
    /\ trail = [j \in JobIds |-> <<>>]
    /\ ever_running = [j \in JobIds |-> TRUE]
    /\ cancelled_pending = [j \in JobIds |-> FALSE]
    /\ create_resp = NoResponse
    /\ cleanup_arg = NoCutoff
    /\ read_resp = Unread
    /\ calls = [c \in CallIds |-> NewCall]
    /\ locked = FALSE /\ cur = 0 /\ applied = <<>>
    /\ dir = EmptyDir

\* what the calls leave alone
CallFrame ==
    UNCHANGED <<next_id, running_tasks, task, models, rep, trail, ever_running,
                cancelled_pending, dir>>

\* where a call is after its statements before the first lock
FirstPc(op, j) ==
    IF op = "delete" THEN "d_acquire"
    ELSE IF op \in {"list", "cleanup"} THEN "l_acquire"
    ELSE IF op = "create" THEN "c_acquire"
    ELSE IF store[j] = NoJob THEN "done"
    ELSE "r_acquire"

\* the event loop runs a coroutine that calls get_job(j), update_job(j, u),
\* delete_job(j), list_jobs(), create_job() or cleanup_old_jobs(); the first
\* two start with get_job: if not job_path.exists(): return None
Begin(c, op, j, u) ==
    /\ cur = 0
    /\ calls[c].pc = "new"
    /\ \A k \in 1..(c - 1) : calls[k].pc # "new"
    /\ calls' = [calls EXCEPT ![c] =
          [NewCall EXCEPT !.op = op, !.id = j, !.u = u, !.pc = FirstPc(op, j)]]
    /\ cur' = IF FirstPc(op, j) = "done" THEN 0 ELSE c
    /\ UNCHANGED <<store, by_mtime, locked, applied>>
    /\ CallFrame

\* an acquire that always gives the loop to other coroutines first
SuspendsAlways(held) == TRUE
\* asyncio.Lock.acquire suspends the coroutine only when the lock is held
Suspends(held) == held

\* a with block that leaves the lock as it is
ReleaseNever(held) == held
\* the end of the async with block releases the lock, also when the block
\* raises
Release(held) == FALSE

AcquirePcs == {"r_acquire", "w_acquire", "d_acquire", "l_acquire", "c_acquire"}

\* async with self._lock, in get_job and before the write of update_job: the
\* lock is taken at once, or the coroutine suspends and takes it when the
\* loop resumes it with the lock free
Acquire(c) ==
    /\ calls[c].pc \in AcquirePcs
    /\ IF calls[c].waiting THEN cur = 0 /\ ~locked ELSE cur = c
    /\ IF ~calls[c].waiting /\ Suspends(locked)
       THEN /\ calls' = [calls EXCEPT ![c].waiting = TRUE]
            /\ cur' = 0
            /\ UNCHANGED locked
       ELSE /\ calls' = [calls EXCEPT ![c].waiting = FALSE,
                            ![c].pc = IF @ = "r_acquire" THEN "read"
                                      ELSE IF @ = "w_acquire" THEN "open"
                                      ELSE IF @ = "l_acquire" THEN "list"
                                      ELSE IF @ = "c_acquire" THEN "write"
                                      ELSE "unlink"]
            /\ cur' = c
            /\ locked' = TRUE
    /\ UNCHANGED <<store, by_mtime, applied>>
    /\ CallFrame

\* get_job: json.load and Job(**data) under the lock, which the end of the
\* with block releases; get_job returns, update_job goes on to modify its
\* local job
Read(c) ==
    /\ cur = c
    /\ calls[c].pc = "read"
    /\ calls' = [calls EXCEPT ![c].job = store[calls[c].id],
                              ![c].pc = IF calls[c].op = "get" THEN "done"
                                        ELSE "w_acquire"]
    /\ locked' = Release(locked)
    /\ cur' = IF calls[c].op = "get" THEN 0 ELSE c
    /\ UNCHANGED <<store, by_mtime, applied>>
    /\ CallFrame

\* open(path, 'w') truncates the file
Open(c) ==
    /\ cur = c
    /\ calls[c].pc = "open"
    /\ store' = [store EXCEPT ![calls[c].id] = Garbled]
    /\ calls' = [calls EXCEPT ![c].pc = "dump"]
    /\ UNCHANGED <<by_mtime, locked, cur, applied>>
    /\ CallFrame

\* json.dump of the modified job, flush, fsync; the lock is released and
\* update_job returns
Dump(c) ==
    /\ cur = c
    /\ calls[c].pc = "dump"
    /\ store' = [store EXCEPT ![calls[c].id] = update_job(calls[c].job, calls[c].u)]
    /\ by_mtime' = <<calls[c].id>> \o Without(calls[c].id)
    /\ calls' = [calls EXCEPT ![c].pc = "done"]
    /\ locked' = Release(locked)
    /\ cur' = 0
    /\ applied' = Append(applied, [id |-> calls[c].id, op |-> "update",
                                   u |-> calls[c].u])
    /\ CallFrame

\* a delete_job that leaves the file where it is
UnlinkNothing(c) ==
    /\ cur = c
    /\ calls[c].pc = "unlink"
    /\ calls' = [calls EXCEPT ![c].pc = "done"]
    /\ cur' = 0
    /\ locked' = Release(locked)
    /\ applied' = Append(applied, [id |-> calls[c].id, op |-> "delete", u |-> NoUpd])
    /\ UNCHANGED <<store, by_mtime>>
    /\ CallFrame
\* delete_job under the lock: if job_path.exists(): job_path.unlink();
\* cleanup_old_jobs goes on to the delete_job of the next job it listed
Unlink(c) ==
    /\ cur = c
    /\ calls[c].pc = "unlink"
    /\ store' = [store EXCEPT ![calls[c].id] = NoJob]
    /\ by_mtime' = Without(calls[c].id)
    /\ IF calls[c].todo = <<>>
       THEN calls' = [calls EXCEPT ![c].pc = "done"] /\ cur' = 0
       ELSE /\ calls' = [calls EXCEPT ![c].pc = "d_acquire",
                                      ![c].id = Head(calls[c].todo),
                                      ![c].todo = Tail(calls[c].todo)]
            /\ cur' = c
    /\ locked' = Release(locked)
    /\ applied' = Append(applied, [id |-> calls[c].id, op |-> "delete", u |-> NoUpd])
    /\ CallFrame

\* list_jobs under the lock: the files sorted by mtime are read one after
\* the other; cleanup_old_jobs, here with a cutoff later than every
\* created_at, goes on to delete the jobs listed
List(c) ==
    /\ cur = c
    /\ calls[c].pc = "list"
    /\ IF calls[c].op = "list" \/ by_mtime = <<>>
       THEN calls' = [calls EXCEPT ![c].pc = "done"] /\ cur' = 0
       ELSE /\ calls' = [calls EXCEPT ![c].pc = "d_acquire",
                                      ![c].id = Head(by_mtime),
                                      ![c].todo = Tail(by_mtime)]
            /\ cur' = c
    /\ locked' = Release(locked)
    /\ UNCHANGED <<store, by_mtime, applied>>
    /\ CallFrame

\* create_job under the lock: the file of a new job, which is none of the
\* jobs the other calls are made on, is written
Write(c) ==
    /\ cur = c
    /\ calls[c].pc = "write"
    /\ calls' = [calls EXCEPT ![c].pc = "done"]
    /\ cur' = 0
    /\ locked' = Release(locked)
    /\ UNCHANGED <<store, by_mtime, applied>>
    /\ CallFrame

UpdateNext ==
    \/ \E c \in CallIds, j \in JobIds, u \in CallUpdates :
          Begin(c, "update", j, u) /\ NoCreate /\ NoCleanup /\ NoRead
    \/ \E c \in CallIds, j \in JobIds :
          Begin(c, "get", j, NoUpd) /\ NoCreate /\ NoCleanup /\ NoRead
    \/ \E c \in CallIds : Acquire(c) /\ NoCreate /\ NoCleanup /\ NoRead
    \/ \E c \in CallIds : Read(c) /\ NoCreate /\ NoCleanup /\ NoRead
    \/ \E c \in CallIds : Open(c) /\ NoCreate /\ NoCleanup /\ NoRead
    \/ \E c \in CallIds : Dump(c) /\ NoCreate /\ NoCleanup /\ NoRead
    \/ \E c \in CallIds, j \in JobIds :
          Begin(c, "delete", j, NoUpd) /\ NoCreate /\ NoCleanup /\ NoRead
    \/ \E c \in CallIds : Unlink(c) /\ NoCreate /\ NoCleanup /\ NoRead
    \/ \E c \in CallIds, op \in {"list", "create", "cleanup"} :
          Begin(c, op, 0, NoUpd) /\ NoCreate /\ NoCleanup /\ NoRead
    \/ \E c \in CallIds : List(c) /\ NoCreate /\ NoCleanup /\ NoRead
    \/ \E c \in CallIds : Write(c) /\ NoCreate /\ NoCleanup /\ NoRead

UpdateSpec == UpdateInit /\ [][UpdateNext]_vars

\* the event loop runs a coroutine that is ready to run
CallStep ==
    \E c \in CallIds :
       /\ Acquire(c) \/ Read(c) \/ Open(c) \/ Dump(c) \/ Unlink(c) \/ List(c) \/ Write(c)
       /\ NoCreate /\ NoCleanup /\ NoRead
UpdateLiveSpec == UpdateSpec /\ WF_vars(CallStep)

\* ------------------------------------------------------------- properties
Exists(j) == store[j] # NoJob
NonEmpty(str) == str \notin {NoStr, ""}

AllowedEdges ==
    {<<PENDING, RUNNING>>, <<RUNNING, COMPLETED>>, <<RUNNING, FAILED>>,
     <<PENDING, CANCELLED>>, <<RUNNING, CANCELLED>>}
EdgeOK(a, b) == a = b \/ <<a, b>> \in AllowedEdges

\* C1: every change of the persisted status of a job, within one step of a
\* coroutine or from one step to the next, is one of the five allowed edges,
\* and a COMPLETED or FAILED job had the status RUNNING persisted before
C1_StatusEdges ==
    /\ [](\A j \in JobIds :
            /\ \A i \in 1..(Len(trail[j]) - 1) :
                  EdgeOK(trail[j][i][1], trail[j][i + 1][1])
            /\ (Exists(j) /\ store[j].status \in {COMPLETED, FAILED})
                  => ever_running[j])
    /\ [][\A j \in JobIds :
            (Exists(j) /\ store'[j] # NoJob /\ trail'[j] = <<>>)
               => EdgeOK(store[j].status, store'[j].status)]_vars

\* a job failed in the first step of its task: RUNNING was written in between
C1_Witness ==
    \E j \in JobIds :
       /\ Exists(j) /\ store[j].status = FAILED
       /\ trail[j] = <<<<PENDING, 0>>, <<RUNNING, 10>>, <<FAILED, 10>>>>

\* C2: once the persisted status of a job is CANCELLED, no write of the
\* pipeline or of its reporter makes it anything else
C2_CancelledStable ==
    /\ [](\A j \in JobIds : \A i \in 1..(Len(trail[j]) - 1) :
            trail[j][i][1] = CANCELLED => trail[j][i + 1][1] = CANCELLED)
    /\ [][\A j \in JobIds :
            (Exists(j) /\ store'[j] # NoJob /\ store[j].status = CANCELLED)
               => store'[j].status = CANCELLED]_vars

\* a job cancelled while its models were in flight, whose task has ended and
\* whose reporter still writes estimates
C2_Witness ==
    \E j \in JobIds :
       /\ Exists(j) /\ store[j].status = CANCELLED
       /\ task[j].pc = "done" /\ rep[j].pc = "sleeping"
       /\ store[j].progress_message = "Processing models..."

\* C3: a job cancelled while PENDING is CANCELLED, was never RUNNING, its
\* task runs no pipeline step (it is waiting to be ended, has ended, or went
\* with its process), and cancel and result requests are rejected
C3_PendingCancel ==
    \A j \in JobIds :
       (cancelled_pending[j] /\ Exists(j)) =>
          /\ store[j].status = CANCELLED
          /\ ~ever_running[j]
          /\ store[j].progress = 0
          /\ task[j].pc \in {"start", "done", "none"}
          /\ rep[j].pc = "none" /\ models[j] = <<>>
          /\ CancelCode(j) = 400
          /\ ResultCode(j) = 400

\* the task of a job cancelled while PENDING has ended
C3_Witness ==
    \E j \in JobIds :
       cancelled_pending[j] /\ Exists(j) /\ task[j].pc = "done"
       /\ j \notin running_tasks

\* C4: a cancel request for a job whose status is terminal answers 400 and
\* leaves the job's record as it was
C4_TerminalCancelRejected ==
    [][\A j \in JobIds :
          (Exists(j) /\ store[j].status \in Terminal /\ CancelReq(j))
             => (CancelCode(j) = 400 /\ store'[j] = store[j])]_vars

\* a COMPLETED job with its result, for which a cancel request answers 400
C4_Witness ==
    \E j \in JobIds :
       /\ Exists(j) /\ store[j].status = COMPLETED
       /\ store[j].result # NoResult
       /\ CancelCode(j) = 400

\* C5: completed_at is set exactly when the status is terminal
C5_CompletedAtIffTerminal ==
    \A j \in JobIds :
       Exists(j) => ((store[j].completed_at # NoTime) <=> store[j].status \in Terminal)

\* a job cancelled while RUNNING carries completed_at
C5_Witness ==
    \E j \in JobIds :
       /\ Exists(j) /\ store[j].status = CANCELLED
       /\ ever_running[j] /\ store[j].completed_at # NoTime

\* C6 as stated: started_at is set exactly when the status has been RUNNING
\* or a later status, a job cancelled while PENDING included
C6_Original ==
    \A j \in JobIds :
       Exists(j) => ((store[j].started_at # NoTime)
                       <=> (ever_running[j]
                            \/ store[j].status \in {RUNNING} \cup Terminal))

\* C6 amended: started_at is set exactly when the status has been RUNNING; a
\* job cancelled while PENDING keeps started_at empty
C6_StartedAtIffRan ==
    \A j \in JobIds :
       Exists(j) => ((store[j].started_at # NoTime) <=> ever_running[j])

\* a job cancelled while PENDING, without started_at
C6_Witness ==
    \E j \in JobIds :
       /\ Exists(j) /\ cancelled_pending[j]
       /\ store[j].status = CANCELLED /\ store[j].started_at = NoTime

\* C7: started_at and completed_at are each assigned at most once, and once
\* set neither is changed by a later update
C7_StampsWrittenOnce ==
    /\ [](\A j \in JobIds :
            Exists(j) => /\ store[j].started_at \in {NoTime, Stamp(NoTime)}
                         /\ store[j].completed_at \in {NoTime, Stamp(NoTime)})
    /\ [][\A j \in JobIds :
            (Exists(j) /\ store'[j] # NoJob) =>
               /\ store[j].started_at # NoTime
                     => store'[j].started_at = store[j].started_at
               /\ store[j].completed_at # NoTime
                     => store'[j].completed_at = store[j].completed_at]_vars

\* a cancelled job with both timestamps whose reporter went on updating it
C7_Witness ==
    \E j \in JobIds :
       /\ Exists(j) /\ store[j].status = CANCELLED
       /\ store[j].started_at # NoTime /\ store[j].completed_at # NoTime
       /\ rep[j].pc = "sleeping" /\ rep[j].elapsed = MaxElapsed
       /\ store[j].progress = 75

\* C8: a result only on COMPLETED, an error only on FAILED; COMPLETED has a
\* result and no error, FAILED has an error and no result
C8_ResultXorError ==
    \A j \in JobIds :
       Exists(j) =>
          /\ store[j].result # NoResult => store[j].status = COMPLETED
          /\ NonEmpty(store[j].error) => store[j].status = FAILED
          /\ store[j].status = COMPLETED
                => (store[j].result # NoResult /\ ~NonEmpty(store[j].error))
          /\ store[j].status = FAILED
                => (NonEmpty(store[j].error) /\ store[j].result = NoResult)

\* a FAILED job with its error text and no result
C8_Witness ==
    \E j \in JobIds :
       /\ Exists(j) /\ store[j].status = FAILED
       /\ store[j].error = "Video not found" /\ store[j].result = NoResult

NonDecreasing(marks) ==
    \A i \in 1..(Len(marks) - 1) : marks[i][2] <= marks[i + 1][2]
InRange(marks) == \A i \in 1..Len(marks) : marks[i][2] \in 0..100

\* the progress values written for the jobs of one type in one step do not
\* decrease, and all lie in 0..100
ProgressInStep(job_type) ==
    \A j \in JobIds :
       (Exists(j) /\ store[j].job_type = job_type) =>
          /\ NonDecreasing(trail[j]) /\ InRange(trail[j])
          /\ store[j].progress \in 0..100

\* a step does not decrease the persisted progress of a job of the type
ProgressAcrossSteps(job_type) ==
    \A j \in JobIds :
       (Exists(j) /\ store'[j] # NoJob /\ store[j].job_type = job_type)
          => store[j].progress <= store'[j].progress

\* C9: the progress values persisted for a SINGLE_COMPARE job never decrease
\* and lie in 0..100
C9_SingleProgressMonotone ==
    /\ []ProgressInStep(SINGLE_COMPARE)
    /\ [][ProgressAcrossSteps(SINGLE_COMPARE)]_vars

\* a completed single job whose reporter had written its clamped estimate
C9_Witness ==
    \E j \in JobIds :
       /\ Exists(j) /\ store[j].job_type = SINGLE_COMPARE
       /\ trail[j] = <<<<RUNNING, 75>>, <<RUNNING, 80>>, <<COMPLETED, 100>>>>

\* C10: the progress values persisted for a BATCH_COMPARE job never decrease
\* and lie in 0..100
C10_BatchProgressMonotone ==
    /\ []ProgressInStep(BATCH_COMPARE)
    /\ [][ProgressAcrossSteps(BATCH_COMPARE)]_vars

\* the messages of the update that opens a stage and of the reporter's updates
StageMessages ==
    {"Running models in parallel...", "Processing models...",
     "Processing combination...", "Combo: Processing..."}

\* C11: the pipeline writes the update that ends a stage only after it set the
\* stop flag and its reporter returned; a reporter lives only while its stage
\* is open (or its task was cancelled, which writes no such update), and every
\* write of a reporter follows the stage's opening update or a reporter write,
\* never the update that ends the stage
C11_ReporterJoinedFirst ==
    /\ [](\A j \in JobIds :
            rep[j].pc \in {"ready", "sleeping"}
               => (task[j].pc \in {"gather", "join"} \/ task[j].cancel_req))
    /\ [][\A j \in JobIds :
            JoinDone(j) => (task[j].stop /\ rep[j].pc = "done")]_vars
    /\ [][\A j \in JobIds :
            (ReporterStep(j) /\ Exists(j) /\ store'[j] # store[j])
               => (~task[j].stop
                   /\ store[j].progress_message \in StageMessages)]_vars

\* the reporter of the second combination of a batch is writing: the first
\* combination's reporter was joined before its evaluation update
C11_Witness ==
    \E j \in JobIds :
       /\ Exists(j) /\ store[j].job_type = BATCH_COMPARE
       /\ task[j].combo = 2 /\ Len(task[j].comparisons) = 1
       /\ rep[j].pc = "sleeping"
       /\ store[j].progress_message = "Combo: Processing..."

\* C12: a create request with an unknown video id or an unknown model id is
\* answered with an error status (404, 400), and the step that answers it
\* leaves the store, the id counter, the task registry and the tasks as they
\* were: no job record, no background task
C12_InvalidCreatesNothing ==
    /\ [](\A vk \in BOOLEAN, mk \in BOOLEAN :
            (~vk \/ ~mk) => CreateCode(vk, mk) \in {400, 404})
    /\ [][create_resp' \in {400, 404}
            => UNCHANGED <<store, next_id, running_tasks, task, models, rep>>]_vars

\* a request naming an unknown model was answered 400 and nothing is stored
C12_Witness ==
    /\ create_resp = 400
    /\ \A j \in JobIds : ~Exists(j) /\ task[j].pc = "none"
    /\ running_tasks = {} /\ next_id = 1

\* the texts of the exceptions a pipeline raises before its models run
StartErrors == {StartError(found) : found \in StartOutcomes \ {"ok"}}

\* one ModelResult per selected model, in selection order, each with an error
\* and no response or with a response and no error
OnePerModel(results, n) ==
    /\ Len(results) = n
    /\ \A i \in 1..n :
          /\ results[i].model_name = i
          /\ \/ NonEmpty(results[i].error) /\ results[i].response = ""
             \/ results[i].error = NoStr /\ results[i].response # ""

Produced(j) ==
    IF task[j].job_type = SINGLE_COMPARE THEN store'[j].result
    ELSE IF task[j].combo < Total(task[j].req)
         THEN task'[j].comparisons[task[j].combo]
         ELSE store'[j].result.comparisons[task[j].combo]

\* C14: whenever the judge call raises or its text does not parse into the
\* requested structure, the job does not become FAILED (a single job and the
\* last combination of a batch become COMPLETED), and the comparison has an
\* empty evaluation and a non-empty overall_summary
C14_EvalFailureExplained ==
    [][\A j \in JobIds, reply \in JudgeReplies \ {"verdict"} :
          (JoinWith(j, reply) /\ Exists(j)) =>
             /\ store'[j].status # FAILED
             /\ (task[j].combo = Total(task[j].req)) => store'[j].status = COMPLETED
             /\ Produced(j).evaluation = <<>>
             /\ NonEmpty(Produced(j).overall_summary)]_vars

\* C15: a COMPLETED batch job of V videos and P prompts has V*P comparisons,
\* the one of video v and prompt p at position (v-1)*P + p, and the totals
\* V*P, V and P
C15_BatchCombinations ==
    \A j \in JobIds :
       (Exists(j) /\ store[j].job_type = BATCH_COMPARE
          /\ store[j].status = COMPLETED) =>
          LET req == store[j].request_data
              res == store[j].result
              V == Len(req.video_ids)
              P == req.prompts
          IN  /\ Len(res.comparisons) = V * P
              /\ \A v \in 1..V, p \in 1..P :
                    /\ res.comparisons[(v - 1) * P + p].video_id = req.video_ids[v]
                    /\ res.comparisons[(v - 1) * P + p].prompt = p
              /\ res.total_combinations = V * P
              /\ res.total_videos = V
              /\ res.total_prompts = P

\* a completed batch of two videos and two prompts with its four comparisons
C15_Witness ==
    \E j \in JobIds :
       /\ Exists(j) /\ store[j].job_type = BATCH_COMPARE
       /\ store[j].status = COMPLETED
       /\ Len(store[j].request_data.video_ids) = 2
       /\ store[j].request_data.prompts = 2
       /\ Len(store[j].result.comparisons) = 4
       /\ store[j].result.comparisons[3].video_id = 2
       /\ store[j].result.comparisons[3].prompt = 1

\* C16: a cleanup leaves every job that was not created before its cutoff
\* stored, with the record it had, whatever the job's status
C16_CleanupKeepsNewer ==
    [][cleanup_arg' # NoCutoff =>
          \A j \in DOMAIN store :
             (store[j] # NoJob /\ j > cleanup_arg') => store'[j] = store[j]]_vars

\* a cleanup with the cutoff between the last two of MaxStored jobs: the
\* job before the cutoff is deleted, the RUNNING job after it is kept
C16_Witness ==
    /\ cleanup_arg = ListLimit
    /\ store[ListLimit] = NoJob
    /\ store[MaxStored] # NoJob /\ store[MaxStored].status = RUNNING

\* C17: after a cleanup no stored job was created before the cutoff, however
\* many jobs are stored and however recently they were modified
C17_CleanupDeletesAllOlder ==
    cleanup_arg # NoCutoff =>
       \A j \in DOMAIN store : store[j] # NoJob => j > cleanup_arg

\* C18: when a pipeline raises an exception, the step in which it is raised
\* ends the task normally and leaves the job FAILED, its error the text of
\* the exception and its result empty; a FAILED job always carries the text
\* of an exception the pipeline raised
C18_ExceptionCaptured ==
    /\ [](\A j \in JobIds :
            (Exists(j) /\ store[j].status = FAILED)
               => (store[j].error \in StartErrors /\ store[j].result = NoResult))
    /\ [][\A j \in JobIds, found \in StartOutcomes \ {"ok"} :
            (TaskStartWith(j, found) /\ Exists(j))
               => /\ store'[j].status = FAILED
                  /\ store'[j].error = StartError(found)
                  /\ store'[j].result = NoResult
                  /\ task'[j].pc = "done" /\ ~task'[j].cancel_req]_vars

\* a batch job failed by the exception of get_client, its task ended
C18_Witness ==
    \E j \in JobIds :
       /\ Exists(j) /\ store[j].job_type = BATCH_COMPARE
       /\ store[j].status = FAILED
       /\ store[j].error = StartError("no_key")
       /\ store[j].result = NoResult /\ task[j].pc = "done"

\* C19: the registry holds entries only of jobs whose task was started and
\* whose done callback has not run, an entry is added only when a job is
\* created and removed only by the done callback of a finished task (or lost
\* with the process that held the registry), and the
\* entry of a task that finished, by success, failure or cancellation, is
\* removed: the registry empties once every task has finished, unless a new
\* task is started first
C19_RegistryHoldsLiveTasks ==
    /\ [](\A j \in running_tasks : task[j].pc \in {"start", "gather", "join", "done"})
    /\ [][\A j \in JobIds :
            /\ (j \in running_tasks' /\ j \notin running_tasks)
                  => (j = next_id /\ create_resp' = 200 /\ task'[j].pc = "start")
            /\ (j \in running_tasks /\ j \notin running_tasks')
                  => ((task[j].pc = "done" /\ cleanup(j)) \/ Restart)]_vars
    /\ \A j \in JobIds : (task[j].pc = "done") ~> (j \notin running_tasks)
    /\ (\A j \in JobIds : task[j].pc \in {"none", "done"})
          ~> (running_tasks = {} \/ \E j \in JobIds : task[j].pc \in {"start", "gather", "join"})

\* a task ended by cancellation whose entry the callback has removed, the
\* registry empty
C19_Witness ==
    \E j \in JobIds :
       /\ task[j].pc = "done" /\ Exists(j) /\ store[j].status = CANCELLED
       /\ ever_running[j]
       /\ running_tasks = {}

C21_GarbledFailsOnlyItsReads ==
    (/\ read_resp.code = ServerError
     /\ \E b \in DOMAIN store : store[b] \notin {NoJob, Garbled})
       => (read_resp.op = "get" /\ store[read_resp.id] = Garbled)

\* the updates applied to job j, in the order in which their calls returned
AppliedTo(j) ==
    LET mine == SelectSeq(applied, LAMBDA a : a.id = j /\ a.op = "update")
    IN  [i \in 1..Len(mine) |-> mine[i].u]
\* the record of job j after these updates, one after the other, or no
\* record if a delete_job(j) returned: no update returns after it
Serial(j) ==
    LET written == <<RunningJob>> \o ApplyAll(RunningJob, AppliedTo(j))
    IN  IF \E i \in 1..Len(applied) : applied[i].id = j /\ applied[i].op = "delete"
        THEN NoJob
        ELSE written[Len(written)]

\* C22: no call of update_job or get_job is suspended between its first and
\* its last statement, so whenever the event loop can run another coroutine
\* the record of a job is the result of the updates that returned, applied
\* one after the other in the order of their return (none once the job was
\* deleted), and a finished get_job has read a whole record
C22_UpdateAtomic ==
    /\ cur = 0 => /\ \A c \in CallIds : calls[c].pc \in {"new", "done"}
                  /\ ~locked
                  /\ \A j \in JobIds : store[j] = Serial(j)
    /\ \A c \in CallIds :
          (calls[c].op = "get" /\ calls[c].pc = "done") => calls[c].job # Garbled

\* the reporter's update applied after cancel_job's: the progress is the
\* reporter's, the status still CANCELLED, and a get_job has read the record
C22_Witness ==
    \E j \in JobIds :
       /\ AppliedTo(j) = <<CancelUpd, SingleReporterUpd(ElapsedUnit)>>
       /\ store[j].status = CANCELLED
       /\ store[j].progress = EstimatedProgress(ElapsedUnit)
       /\ \E c \in CallIds : calls[c].op = "get" /\ calls[c].pc = "done"
                               /\ calls[c].job = store[j]

C24_VideoGoneFails ==
    \A j \in JobIds :
       (Exists(j) /\ store[j].status = COMPLETED) =>
          LET comparisons == IF store[j].job_type = SINGLE_COMPARE
                             THEN <<store[j].result>>
                             ELSE store[j].result.comparisons
          IN  \A c \in 1..Len(comparisons) :
                 \A i \in 1..Len(comparisons[c].results) :
                    comparisons[c].results[i].error # ModelError("gone")

\* arguments of update_job, passed and not, with the values Python counts
\* as false
FrameUpds ==
    {Upd(s, p, m, r, e) :
        s \in {NoStr, RUNNING, FAILED}, p \in {NoProgress, 0, 80},
        m \in {NoStr, "", "text"}, r \in {NoResult, [comparisons |-> <<>>]},
        e \in {NoStr, "", "text"}}

Whole(record) == record \notin {NoJob, Garbled}

\* record `new` is record `old` with exactly the arguments passed in u
\* replaced, the timestamps touched only along with a status
Framed(old, u, new) ==
    /\ new.job_type = old.job_type
    /\ new.created_at = old.created_at
    /\ new.request_data = old.request_data
    /\ new.status = IF u.status # NoStr THEN u.status ELSE old.status
    /\ u.status = NoStr => /\ new.started_at = old.started_at
                           /\ new.completed_at = old.completed_at
    /\ new.progress = IF u.progress # NoProgress THEN u.progress ELSE old.progress
    /\ new.progress_message = IF u.progress_message # NoStr
                              THEN u.progress_message ELSE old.progress_message
    /\ new.result = IF u.result # NoResult THEN u.result ELSE old.result
    /\ new.error = IF u.error # NoStr THEN u.error ELSE old.error

\* C25: update_job replaces exactly the fields passed (the timestamps only
\* along with a status) and never the job type, the creation time or the
\* request; the file of a job is touched only by the statements of a call
\* made for that job, so an update, a cancel or a delete of one job leaves
\* the record of every other job as it was
C25_UpdateFrame ==
    /\ [](\A j \in JobIds : Whole(store[j]) =>
            \A u \in FrameUpds : Framed(store[j], u, update_job(store[j], u)))
    /\ [][/\ \A c \in CallIds :
               /\ Dump(c) => Framed(calls[c].job, calls[c].u, store'[calls[c].id])
               /\ (Open(c) \/ Dump(c) \/ Unlink(c))
                     => \A k \in JobIds \ {calls[c].id} : store'[k] = store[k]
          /\ (\A c \in CallIds : ~(Open(c) \/ Dump(c) \/ Unlink(c)))
                => store' = store]_vars

\* job 1 cancelled, its progress and message as before, job 2 deleted by a
\* later call
C25_Witness ==
    /\ cur = 0
    /\ applied = <<[id |-> 1, op |-> "update", u |-> CancelUpd],
                   [id |-> 2, op |-> "delete", u |-> NoUpd]>>
    /\ store[1] = [RunningJob EXCEPT !.status = CANCELLED, !.completed_at = Stamp(NoTime)]
    /\ store[2] = NoJob

\* C26: an accepted create request stores, under an id no job has or had, a
\* record that is PENDING with progress 0 and without timestamps of start
\* and end, result and error, registers its task and runs none of its work:
\* the record stays as created until the task takes its first step or a
\* client cancels or deletes the job
C26_CreatedPending ==
    /\ [](\A j \in JobIds :
            /\ j >= next_id => (store[j] = NoJob /\ task[j].pc = "none")
            /\ (Exists(j) /\ store[j].status = PENDING)
                  => /\ store[j] = NewJob(store[j].job_type, store[j].request_data)
                     /\ store[j].progress = 0
                     /\ store[j].started_at = NoTime /\ store[j].completed_at = NoTime
                     /\ store[j].result = NoResult /\ store[j].error = NoStr)
    /\ [][/\ create_resp' = 200
               => /\ next_id' = next_id + 1
                  /\ store[next_id] = NoJob
                  /\ store'[next_id].status = PENDING
                  /\ task'[next_id].pc = "start"
                  /\ next_id \in running_tasks'
                  /\ \A k \in JobIds \ {next_id} : store'[k] = store[k]
          /\ \A j \in JobIds :
                (/\ Exists(j) /\ store[j].status = PENDING
                 /\ store'[j] # NoJob /\ store'[j] # store[j])
                   => (TaskStart(j) \/ (CancelReq(j) /\ store'[j].status = CANCELLED))]_vars

\* the request has just been answered: the record is PENDING, the task
\* registered and not yet run
C26_Witness ==
    /\ create_resp = 200
    /\ \E j \in JobIds :
          /\ Exists(j) /\ store[j].status = PENDING /\ store[j].progress = 0
          /\ store[j].job_type = BATCH_COMPARE
          /\ task[j].pc = "start" /\ j \in running_tasks
          /\ next_id = j + 1

\* C27: every progress value the reporter of a SINGLE_COMPARE job writes
\* lies in 20..75, below the 80 of the evaluation, whatever time has elapsed
C27_SingleReporterRange ==
    /\ [](\A elapsed \in 0..(MaxElapsed * ElapsedUnit) :
            EstimatedProgress(elapsed) \in 20..75)
    /\ [][\A j \in JobIds :
            (/\ ReporterStep(j) /\ task[j].job_type = SINGLE_COMPARE
             /\ ~task[j].stop /\ Exists(j))
               => /\ store'[j].progress \in 20..75
                  /\ store'[j].progress < SingleEvalUpd.progress
                  /\ store'[j].progress = EstimatedProgress(rep'[j].elapsed * ElapsedUnit)
                  /\ store'[j].progress_message = "Processing models..."]_vars

\* the reporter has written its highest value while the models are in flight
C27_Witness ==
    \E j \in JobIds :
       /\ Exists(j) /\ store[j].job_type = SINGLE_COMPARE
       /\ task[j].pc = "gather" /\ rep[j].pc = "sleeping"
       /\ rep[j].elapsed * ElapsedUnit > EstimatedDuration
       /\ store[j].status = RUNNING /\ store[j].progress = 75

\* C28: every progress value the reporter of a BATCH_COMPARE job writes during
\* a combination is at least the combination's base value and at most the
\* value written before the combination's evaluation
C28_BatchReporterRange ==
    [][\A j \in JobIds :
         (/\ ReporterStep(j) /\ task[j].job_type = BATCH_COMPARE
          /\ ~task[j].stop /\ Exists(j) /\ Total(task[j].req) >= 1)
            => /\ store'[j].progress >= task[j].base
               /\ store'[j].progress <= EvalProgress(task[j].base, Total(task[j].req))]_vars

\* the model calls of job j that have been started and have not returned
InFlight(j) == {i \in 1..Len(models[j]) : models[j][i] = "pending"}

\* C29: the combinations of a BATCH_COMPARE job run one after another: the
\* calls in flight are those of one combination, one per selected model, and
\* the calls of the next combination are started only by the step in which
\* the evaluation of the current one has returned, when none is in flight
C29_CombosSequential ==
    /\ [](\A j \in JobIds :
            (task[j].job_type = BATCH_COMPARE /\ task[j].pc \in {"gather", "join"})
               => /\ Len(models[j]) = task[j].req.models
                  /\ task[j].combo \in 1..Total(task[j].req)
                  /\ Len(task[j].comparisons) = task[j].combo - 1)
    /\ [][\A j \in JobIds :
            (/\ task[j].job_type = BATCH_COMPARE
             /\ task[j].pc \in {"gather", "join"}
             /\ \E i \in InFlight(j)' : i \notin InFlight(j))
               => /\ InFlight(j) = {}
                  /\ Gathered(models[j])
                  /\ JoinDone(j)
                  /\ task'[j].combo = task[j].combo + 1
                  /\ Len(task'[j].comparisons) = task[j].combo
                  /\ \E ev \in EvalOutcomes :
                        task'[j].comparisons[task[j].combo] =
                           Comparison(ComboVideo(task[j].req, task[j].combo),
                                      ComboPrompt(task[j].req, task[j].combo),
                                      models[j], ev)]_vars

\* the calls of the second combination are in flight, the first combination
\* evaluated with the results of all its calls
C29_Witness ==
    \E j \in JobIds :
       /\ task[j].job_type = BATCH_COMPARE /\ task[j].pc = "gather"
       /\ task[j].combo = 2
       /\ InFlight(j) = 1..task[j].req.models
       /\ task[j].req.models >= 2
       /\ Len(task[j].comparisons) = 1
       /\ Len(task[j].comparisons[1].results) = task[j].req.models

\* the order in which a pipeline passes its stages: validation ("start"),
\* the model calls ("gather"), the join of the reporter followed by the
\* evaluation and the write of its outcome ("join"), the end ("done")
StageEdges ==
    {<<"none", "start">>, <<"start", "gather">>, <<"start", "done">>,
     <<"gather", "join">>, <<"gather", "done">>, <<"join", "gather">>,
     <<"join", "done">>}

\* the result of a job holds one comparison per combination, in the order of
\* the loops, each with the result of every selected model
ResultComplete(job) ==
    IF job.job_type = SINGLE_COMPARE
    THEN OnePerModel(job.result.results, job.request_data.models)
    ELSE /\ Len(job.result.comparisons) = Total(job.request_data)
         /\ \A k \in 1..Len(job.result.comparisons) :
               /\ job.result.comparisons[k].video_id = ComboVideo(job.request_data, k)
               /\ job.result.comparisons[k].prompt = ComboPrompt(job.request_data, k)
               /\ OnePerModel(job.result.comparisons[k].results,
                              job.request_data.models)

\* C30: the stages of a job follow one another as validation, model calls,
\* evaluation, write of the result: a model call returns only during the
\* stage of the model calls; the evaluation of a combination runs once, in the
\* step after every selected model has an outcome and the reporter is joined,
\* and its comparison holds the results of all those calls; a job becomes
\* COMPLETED only in the step of its last evaluation, with a comparison for
\* every combination
C30_StagesOrdered ==
    /\ [](\A j \in JobIds :
            /\ (Exists(j) /\ store[j].status = COMPLETED) => ResultComplete(store[j])
            /\ InFlight(j) # {} => task[j].pc = "gather"
            /\ task[j].pc = "join" => Gathered(models[j]))
    /\ [][\A j \in JobIds :
            /\ task'[j].pc # task[j].pc
                  => \/ <<task[j].pc, task'[j].pc>> \in StageEdges
                     \/ Restart
            /\ (task[j].pc = "gather" /\ task'[j].pc = "done") => task[j].cancel_req
            /\ (task[j].pc = "join" /\ task'[j].pc # "join" /\ ~Restart)
                  => \/ task[j].cancel_req /\ task'[j].pc = "done"
                        /\ (Exists(j) => store'[j] = store[j])
                     \/ /\ JoinDone(j)
                        /\ Gathered(models[j])
                        /\ Len(models[j]) = task[j].req.models
                        /\ Joined(j)
                        /\ task[j].job_type = BATCH_COMPARE /\ task'[j].pc = "gather"
                              => /\ Len(task'[j].comparisons) = Len(task[j].comparisons) + 1
                                 /\ task'[j].comparisons[task[j].combo].results =
                                       [i \in 1..Len(models[j]) |->
                                           ModelResult(i, models[j][i])]
            /\ (task'[j].comparisons # task[j].comparisons /\ task'[j].comparisons # <<>>)
                  => JoinDone(j)
            /\ (Exists(j) /\ store[j].status # COMPLETED
                 /\ store'[j] # NoJob /\ store'[j].status = COMPLETED)
                  => \/ /\ task[j].pc = "join" /\ JoinDone(j)
                        /\ task[j].job_type = BATCH_COMPARE
                              => /\ task[j].combo = Total(task[j].req)
                                 /\ Len(task[j].comparisons) = task[j].combo - 1
                     \/ /\ task[j].pc = "start" /\ TaskStart(j)
                        /\ task[j].job_type = BATCH_COMPARE
                        /\ Total(task[j].req) = 0]_vars

\* a completed batch of four combinations, each evaluated in its turn
C30_Witness ==
    \E j \in JobIds :
       /\ Exists(j) /\ store[j].job_type = BATCH_COMPARE
       /\ store[j].status = COMPLETED
       /\ Total(store[j].request_data) = 4
       /\ Len(store[j].result.comparisons) = 4
       /\ store[j].result.comparisons[4].video_id = 2
       /\ store[j].result.comparisons[4].prompt = 2

\* C31: a cancel request for a RUNNING job writes CANCELLED and reaches the
\* task at the await where it is suspended; from then on the task starts no
\* model call, runs no evaluation and writes no result: its only step is the
\* one that ends it, and the status stays CANCELLED
C31_CancelStopsPipeline ==
    /\ [](\A j \in JobIds :
            task[j].cancel_req
               => /\ InFlight(j) = {}
                  /\ Exists(j) => store[j].status = CANCELLED)
    /\ [][\A j \in JobIds :
            /\ (CancelReq(j) /\ Exists(j) /\ store[j].status = RUNNING)
                  => /\ store'[j].status = CANCELLED
                     /\ store'[j].result = store[j].result
                     /\ task[j].pc \in {"gather", "join"} => task'[j].cancel_req
            /\ task[j].cancel_req
                  => /\ task'[j].pc \in {task[j].pc, "done"} \/ Restart
                     /\ task'[j].comparisons \in {task[j].comparisons, <<>>}
                     /\ ~GatherDone(j) /\ ~JoinDone(j) /\ ~TaskStart(j)
                     /\ (Exists(j) /\ store'[j] # NoJob)
                           => /\ store'[j].status = CANCELLED
                              /\ store'[j].result = store[j].result]_vars

\* a batch of several combinations cancelled during its first: the task has
\* ended, no combination was evaluated and no result is stored
C31_Witness ==
    \E j \in JobIds :
       /\ Exists(j) /\ store[j].job_type = BATCH_COMPARE
       /\ Total(store[j].request_data) >= 2
       /\ store[j].status = CANCELLED /\ store[j].started_at # NoTime
       /\ store[j].result = NoResult
       /\ task[j].pc = "done" /\ task[j].cancel_req

\* C32: no reporter outlives the task of its job: once the task has ended,
\* by success, failure or cancellation, its reporter's loop has exited
C32_ReporterEndsWithTask ==
    \A j \in JobIds :
       task[j].pc \in {"done", "none"} => rep[j].pc \notin {"ready", "sleeping"}

\* the calls that have started and not returned
Unfinished == {c \in CallIds : calls[c].pc \notin {"new", "done"}}

\* C33: no call is suspended while it holds the lock and none reaches an
\* acquire with the lock held, by itself or by another call, so no call ever
\* waits for the lock; a call that has not returned can always take its next
\* step, and every call that has started returns, whatever the other calls do
C33_LockNeverBlocks ==
    /\ [](/\ cur = 0 => ~locked
           /\ \A c \in CallIds :
                 /\ ~calls[c].waiting
                 /\ (cur = c /\ calls[c].pc \in AcquirePcs) => ~locked
                 /\ locked => cur # 0 /\ calls[cur].pc \in
                                 {"read", "open", "dump", "unlink", "list", "write"}
           /\ Unfinished # {} => ENABLED CallStep)
    /\ \A c \in CallIds : (calls[c].pc # "new") ~> (calls[c].pc = "done")

\* a cleanup has listed both jobs and deleted the first, which an update had
\* written before; it is about to take the lock again for the second
C33_Witness ==
    \E c \in CallIds :
       /\ calls[c].op = "cleanup" /\ calls[c].pc = "d_acquire" /\ cur = c
       /\ ~locked
       /\ \A k \in CallIds : calls[k].op # "delete"
       /\ Len(applied) = 2
       /\ applied[1].op = "update" /\ applied[2].op = "delete"
       /\ applied[1].id = applied[2].id
       /\ store[applied[2].id] = NoJob
       /\ by_mtime = <<calls[c].id>>

\* C35: every ModelResult that run_model_on_video returns has a non-empty
\* response and no error, or a non-empty error and an empty response,
\* whatever the Gemini call did
C35_ResponseXorError ==
    read_resp.op = "model"
       => \/ /\ NonEmpty(read_resp.result.response)
             /\ read_resp.result.error = NoStr
          \/ /\ NonEmpty(read_resp.result.error)
             /\ read_resp.result.response = ""

\* C34: a listing with a limit of zero or more returns at most limit jobs,
\* and they are the jobs written last, the one written last first
C34_ListNewestFirst ==
    (read_resp.op = "list" /\ read_resp.id >= 0)
       => /\ Len(read_resp.jobs) <= read_resp.id
          /\ read_resp.jobs = SubSeq(by_mtime, 1, Min(read_resp.id, Len(by_mtime)))

\* C36: the record of a job whose status is COMPLETED, FAILED or CANCELLED is
\* not written again: as long as it is stored, it stays as the write that
\* made it terminal left it
C36_TerminalRecordFrozen ==
    [][\A j \in JobIds :
         (Exists(j) /\ store[j].status \in Terminal /\ store'[j] # NoJob)
            => store'[j] = store[j]]_vars

\* C37: every job whose background task was started comes to a terminal
\* status, unless its record is deleted first, in a process that stays up
\* and whose model and judge calls return
C37_JobsEnd ==
    \A j \in JobIds :
       (task[j].pc = "start") ~> (store[j] = NoJob \/ store[j].status \in Terminal)

\* a batch of several combinations has run to COMPLETED and its task has ended
C37_Witness ==
    \E j \in JobIds :
       /\ Exists(j) /\ store[j].job_type = BATCH_COMPARE
       /\ store[j].status = COMPLETED /\ task[j].pc = "done"
       /\ Total(store[j].request_data) >= 2
       /\ j \notin running_tasks

\* a delete_job(j), of a client or of cleanup_old_jobs, has returned
Deleted(j) == \E i \in 1..Len(applied) : applied[i].id = j /\ applied[i].op = "delete"

\* C39: once a delete_job(j) has returned the job has no record, whatever
\* calls were in progress or follow: no step writes a record for a job that
\* has none, a get_job that starts then returns None, and an update_job
\* (the pipeline's, a reporter's, cancel_job's) that starts then returns at
\* once without writing
C39_DeletionFinal ==
    /\ [](\A j \in JobIds : Deleted(j) => store[j] = NoJob)
    /\ [][\A j \in JobIds :
            /\ (j < next_id /\ store[j] = NoJob) => store'[j] = NoJob
            /\ \A c \in DOMAIN calls :
                  (/\ store[j] = NoJob
                   /\ calls[c].pc = "new" /\ calls'[c].pc # "new"
                   /\ calls'[c].op \in {"get", "update"} /\ calls'[c].id = j)
                     => /\ calls'[c].pc = "done" /\ calls'[c].job = NoJob
                        /\ cur' = 0 /\ ~locked'
                        /\ applied' = applied]_vars

\* job j was deleted; a cancel_job and a get_job made for it since have
\* returned, and the only call that left a trace is the delete
C39_Witness ==
    \E j \in JobIds :
       /\ cur = 0
       /\ applied = <<[id |-> j, op |-> "delete", u |-> NoUpd]>>
       /\ store[j] = NoJob
       /\ \E c \in CallIds : /\ calls[c].op = "update" /\ calls[c].id = j
                               /\ calls[c].u = CancelUpd /\ calls[c].pc = "done"
       /\ \E c \in CallIds : /\ calls[c].op = "get" /\ calls[c].id = j
                               /\ calls[c].pc = "done" /\ calls[c].job = NoJob

\* C38: a job whose record says RUNNING has a task that has not finished
\* registered under its id, also after the process was started again
C38_RunningHasTask ==
    \A j \in JobIds :
       (Exists(j) /\ store[j].status = RUNNING)
          => (j \in running_tasks /\ task[j].pc \in {"start", "gather", "join"})
====
